---- MODULE Spec2Model ----
(***************************************************************************)
(* A model of the Pony LLM code-synthesis evaluation harness               *)
(* (src/evaluation/evaluator.py): the batch orchestrator run_evaluation,   *)
(* the retry loop evaluate_task, the compiler adapter compile_code and the *)
(* response extractor extract_code_from_response.                          *)
(*                                                                         *)
(* Text is modelled as a sequence of one-character strings, so that        *)
(* substring tests, concatenation, splitting and trimming are computed as  *)
(* the Python code computes them.                                          *)
(***************************************************************************)
EXTENDS Integers, Sequences, FiniteSets, TLC

VARIABLES
    max_retries,    \* Evaluator.max_retries
    tasks,          \* run_evaluation: the dataset's tasks (after the filter)
    strategies,     \* Evaluator.strategies
    models,         \* Evaluator.models
    ti, si, mi,     \* run_evaluation: positions of the three nested loops
    pc,             \* position inside run_evaluation / evaluate_task
    attempt,        \* evaluate_task: the loop variable (0-based)
    all_attempts,   \* evaluate_task: the list of attempt results
    gen,            \* evaluate_task: generated_code of the current attempt
    verdict,        \* evaluate_task: (success, error) of the current attempt
    ret,            \* how the last evaluate_task call ended
    results,        \* Evaluator.results
    code_file,      \* the files below generated_code/, by name
    saved,          \* number of save_results calls
    reported,       \* number of generate_report calls
    llm_calls,      \* LLMClient.generate calls made by the current evaluate_task
    compile_calls,  \* compile_code calls made by the current evaluate_task
    attempt_log,    \* log: what each attempt of the current evaluate_task produced
    evaluated,      \* log: one entry per finished evaluate_task call
    call_log,       \* log: the model calls and compiler calls of the run, in order
    cc_in,          \* inputs of the last compile_code call
    cc_ret,         \* how the last compile_code call ended
    main_file,      \* main.pony of the scratch directory of the last compile_code call
    response,       \* input of the last extract_code_from_response call
    extracted,      \* its result
    cleaned,        \* log: argument and result of the clean_pony_code calls
    prompt_log,     \* log: arguments and result of the get_prompt calls
    dataset,        \* the dataset file: its tasks and metadata.total_tasks
    task_filter,    \* run_evaluation: the task_filter argument
    results_summary, \* BatchRunner.results_summary
    batch_ret,      \* how the last run_configuration call ended
    add_log         \* log: the add_task_to_dataset calls and what they returned

config == <<max_retries, tasks, strategies, models>>
evalVars == <<config, ti, si, mi, pc, attempt, all_attempts, gen, verdict, ret,
              results, code_file, saved, reported, llm_calls, compile_calls,
              attempt_log, evaluated, call_log>>
compileVars == <<cc_in, cc_ret, main_file>>
extractVars == <<response, extracted>>
repairVars == <<cleaned>>
promptVars == <<prompt_log>>
pureVars == <<extractVars, repairVars, promptVars>>
toolVars == <<dataset, task_filter, results_summary, batch_ret, add_log>>
vars == <<evalVars, compileVars, pureVars, toolVars>>

----------------------------------------------------------------------------
(* Bounds of the model.                                                    *)

\* max_retries ranges over -1..MaxRetries (the constructor accepts any integer)
MaxRetries == 3

----------------------------------------------------------------------------
(* Optional[str] and text helpers.                                         *)

None == <<"None">>
Some(s) == <<"Some", s>>

\* Python: sub in s
RECURSIVE In(_, _)
In(sub, s) ==
    IF Len(sub) > Len(s) THEN FALSE
    ELSE IF SubSeq(s, 1, Len(sub)) = sub THEN TRUE
    ELSE In(sub, Tail(s))

\* Python: the index (1-based) of the first occurrence of sub in s at or
\* after position from, 0 when there is none
RECURSIVE Find(_, _, _)
Find(sub, s, from) ==
    IF from + Len(sub) - 1 > Len(s) THEN 0
    ELSE IF SubSeq(s, from, from + Len(sub) - 1) = sub THEN from
    ELSE Find(sub, s, from + 1)

Whitespace == {" ", "\t", "\n", "\r", "\f"}

RECURSIVE LStrip(_)
LStrip(s) ==
    IF s # <<>> /\ Head(s) \in Whitespace THEN LStrip(Tail(s)) ELSE s

RECURSIVE RStrip(_)
RStrip(s) ==
    IF s # <<>> /\ s[Len(s)] \in Whitespace
    THEN RStrip(SubSeq(s, 1, Len(s) - 1))
    ELSE s

\* Python: s.strip()
Strip(s) == RStrip(LStrip(s))

\* Python: s.split('\n')
RECURSIVE SplitLines(_)
SplitLines(s) ==
    LET i == Find(<<"\n">>, s, 1)
    IN  IF i = 0
        THEN <<s>>
        ELSE <<SubSeq(s, 1, i - 1)>> \o SplitLines(SubSeq(s, i + 1, Len(s)))

\* Python: '\n'.join(lines)
RECURSIVE JoinLines(_)
JoinLines(lines) ==
    IF lines = <<>> THEN <<>>
    ELSE IF Len(lines) = 1 THEN lines[1]
    ELSE lines[1] \o <<"\n">> \o JoinLines(Tail(lines))

----------------------------------------------------------------------------
(* PonyCompiler.compile_code: the subprocess and its classification.       *)

\* What subprocess.run does: the process completes, exceeds the timeout,
\* or cannot be launched (any other exception, with its text).
Completed(rc, out, err) ==
    [kind |-> "completed", returncode |-> rc, stdout |-> out, stderr |-> err]
TimeoutExpired == [kind |-> "timeout"]
LaunchError(e) == [kind |-> "error", text |-> e]

Verifying == <<"V", "e", "r", "i", "f", "y", "i", "n", "g">>
Writing == <<"W", "r", "i", "t", "i", "n", "g">>
TimeoutText ==
    <<"C", "o", "m", "p", "i", "l", "a", "t", "i", "o", "n", " ",
      "t", "i", "m", "e", "o", "u", "t", " ", "(", "3", "0", "s", ")">>
ErrorPrefix ==
    <<"C", "o", "m", "p", "i", "l", "a", "t", "i", "o", "n", " ",
      "e", "r", "r", "o", "r", ":", " ">>

\* mutant of RunPonyc: the markers are looked for in stdout only
RunPonyc_StdoutOnly(proc) ==
    CASE proc.kind = "timeout" -> <<FALSE, Some(TimeoutText)>>
      [] proc.kind = "error" -> <<FALSE, Some(ErrorPrefix \o proc.text)>>
      [] proc.kind = "completed" ->
            IF \/ proc.returncode = 0
               \/ In(Verifying, proc.stdout)
               \/ In(Writing, proc.stdout)
            THEN <<TRUE, None>>
            ELSE <<FALSE, Some(proc.stderr)>>

\* mutant of RunPonyc: the diagnostic of a launch failure leaves out str(e)
RunPonyc_DropsErrorText(proc) ==
    CASE proc.kind = "timeout" -> <<FALSE, Some(TimeoutText)>>
      [] proc.kind = "error" -> <<FALSE, Some(ErrorPrefix)>>
      [] proc.kind = "completed" ->
            LET output == proc.stdout \o proc.stderr
            IN  IF \/ proc.returncode = 0
                   \/ In(Verifying, output)
                   \/ In(Writing, output)
                THEN <<TRUE, None>>
                ELSE <<FALSE, Some(proc.stderr)>>

\* The try block of compile_code: run ponyc and classify the outcome.
RunPonyc(proc) ==
    CASE proc.kind = "timeout" -> <<FALSE, Some(TimeoutText)>>
      [] proc.kind = "error" -> <<FALSE, Some(ErrorPrefix \o proc.text)>>
      [] proc.kind = "completed" ->
            LET output == proc.stdout \o proc.stderr
            IN  IF \/ proc.returncode = 0
                   \/ In(Verifying, output)
                   \/ In(Writing, output)
                THEN <<TRUE, None>>
                ELSE <<FALSE, Some(proc.stderr)>>

ActorMain == <<"a", "c", "t", "o", "r", " ", "M", "a", "i", "n">>

\* line 93: 'new create(env: Env) =>'
CreateLine ==
    <<"n", "e", "w", " ", "c", "r", "e", "a", "t", "e", "(", "e", "n", "v",
      ":", " ", "E", "n", "v", ")", " ", "=", ">">>

\* lines 110-113: the synthesized entry point, up to the snippet
EntryPoint ==
    ActorMain \o <<"\n", " ", " ">> \o CreateLine
        \o <<"\n", " ", " ", " ", " ", "e", "n", "v", ".", "o", "u", "t", ".",
             "p", "r", "i", "n", "t", "(", "\"", "C", "o", "m", "p", "i",
             "l", "a", "t", "i", "o", "n", " ", "t", "e", "s", "t", "\"",
             ")", "\n", "\n">>

\* mutant of WrapSnippet: the snippet is trimmed before it is wrapped
WrapSnippet_Trimmed(code) == EntryPoint \o Strip(code) \o <<"\n">>

\* lines 108-115: no Main, wrap it
WrapSnippet(code) == EntryPoint \o code \o <<"\n">>

\* mutant of KeepMain: the text after the first "actor Main" is used alone
KeepMain_Dropped(main_and_after) == main_and_after

\* lines 105-107: nothing before Main, use as-is
KeepMain(main_and_after) == ActorMain \o main_and_after

\* lines 102-104: object/class/primitive, keep it before Main
KeepBefore(before_main, main_and_after) ==
    before_main \o <<"\n", "\n">> \o ActorMain \o main_and_after

\* lines 88-99: the lines of main_and_after, with the lines of the function
\* (indented by two blanks) and an empty line after the first line that
\* holds the create line
RECURSIVE InsertFunction(_, _, _)
InsertFunction(lines, func_lines, inserted) ==
    IF lines = <<>> THEN <<>>
    ELSE IF In(CreateLine, Head(lines)) /\ ~inserted
         THEN <<Head(lines)>>
                \o [i \in 1..Len(func_lines) |-> <<" ", " ">> \o func_lines[i]]
                \o << <<>> >>
                \o InsertFunction(Tail(lines), func_lines, TRUE)
         ELSE <<Head(lines)>> \o InsertFunction(Tail(lines), func_lines, inserted)

\* lines 84-101: a standalone function, move it inside Main
SpliceFunction(before_main, main_and_after) ==
    ActorMain \o <<"\n">>
        \o JoinLines(InsertFunction(SplitLines(main_and_after),
                                    SplitLines(before_main), FALSE))

\* lines 75-115: the text compile_code writes for code
NormalizedCode(code) ==
    IF In(ActorMain, code)
    THEN LET k == Find(ActorMain, code, 1)
             before_main == Strip(SubSeq(code, 1, k - 1))
             main_and_after == SubSeq(code, k + Len(ActorMain), Len(code))
         IN  IF before_main # <<>>
             THEN IF Len(before_main) >= 4
                     /\ SubSeq(before_main, 1, 4) = <<"f", "u", "n", " ">>
                  THEN SpliceFunction(before_main, main_and_after)
                  ELSE KeepBefore(before_main, main_and_after)
             ELSE KeepMain(main_and_after)
    ELSE WrapSnippet(code)

\* compile_code(code, work_dir): main_file.write_text(code) runs before the
\* try block, so a work_dir that cannot be written raises OSError.  What the
\* subprocess does with the text written is the environment's choice (proc).
compile_code(code, dir_ok, proc) ==
    IF ~dir_ok
    THEN [kind |-> "raise", exc |-> "OSError"]
    ELSE [kind |-> "return", value |-> RunPonyc(proc)]

\* line 117: main.pony after the call, None when it could not be written
MainFile(code, dir_ok) == IF dir_ok THEN Some(NormalizedCode(code)) ELSE None

----------------------------------------------------------------------------
(* extract_code_from_response.                                             *)

\* re.findall(open (.*?) close, s, re.DOTALL) for literal open and close:
\* the captures of the non-overlapping matches, leftmost first, each capture
\* the shortest text between open and a following close
RECURSIVE FindAll(_, _, _, _)
FindAll(open, close, s, from) ==
    LET i == Find(open, s, from)
        j == IF i = 0 THEN 0 ELSE Find(close, s, i + Len(open))
    IN  IF j = 0
        THEN <<>>
        ELSE <<SubSeq(s, i + Len(open), j - 1)>>
                 \o FindAll(open, close, s, j + Len(close))

UpperCase ==
    <<"A", "B", "C", "D", "E", "F", "G", "H", "I", "J", "K", "L", "M",
      "N", "O", "P", "Q", "R", "S", "T", "U", "V", "W", "X", "Y", "Z">>
LowerCase ==
    <<"a", "b", "c", "d", "e", "f", "g", "h", "i", "j", "k", "l", "m",
      "n", "o", "p", "q", "r", "s", "t", "u", "v", "w", "x", "y", "z">>

\* Python: s.lower()
Lower(s) ==
    [i \in 1..Len(s) |->
        IF \E k \in 1..Len(UpperCase) : UpperCase[k] = s[i]
        THEN LowerCase[CHOOSE k \in 1..Len(UpperCase) : UpperCase[k] = s[i]]
        ELSE s[i]]

\* the backquote character (a TLA+ string cannot hold it)
BQ == "BQ"

PonyOpen == <<BQ, BQ, BQ, "p", "o", "n", "y", "\n">>
GenericOpen == <<BQ, BQ, BQ, "\n">>
FenceClose == <<"\n", BQ, BQ, BQ>>

KwActor == <<"a", "c", "t", "o", "r">>
KwClass == <<"c", "l", "a", "s", "s">>
KwPrimitive == <<"p", "r", "i", "m", "i", "t", "i", "v", "e">>
KwFun == <<"f", "u", "n">>
KwBe == <<"b", "e">>

\* line 206: the keywords a generic block is tested for
BlockKeywords == {KwActor, KwClass, KwPrimitive, KwFun, KwBe}
\* mutant of LineKeywords: the line scan uses the keyword list of line 206
LineKeywords_WithBe == {KwActor, KwClass, KwPrimitive, KwFun, KwBe}

\* line 220: the keywords that start the code in the line scan
LineKeywords == {KwActor, KwClass, KwPrimitive, KwFun}
\* line 217: the markers of explanatory lines
SkipMarkers ==
    { <<"h", "e", "r", "e">>,
      <<"e", "x", "a", "m", "p", "l", "e">>,
      <<"e", "x", "p", "l", "a", "n", "a", "t", "i", "o", "n">>,
      <<"#", "#", "#">>,
      <<"h", "o", "w", " ", "t", "o">> }

\* lines 205-208: the last generic block holding a keyword, else the last one
RECURSIVE LastWithKeyword(_, _)
LastWithKeyword(matches, i) ==
    IF i = 0 THEN matches[Len(matches)]
    ELSE IF \E kw \in BlockKeywords : In(kw, matches[i]) THEN matches[i]
    ELSE LastWithKeyword(matches, i - 1)

\* lines 211-223: the lines kept by the scan, from the first line holding a
\* keyword on, explanatory lines left out
RECURSIVE ScanLines(_, _)
ScanLines(lines, code_started) ==
    IF lines = <<>> THEN <<>>
    ELSE LET line == Head(lines)
         IN  IF \E skip \in SkipMarkers : In(skip, Lower(line))
             THEN ScanLines(Tail(lines), code_started)
             ELSE LET started == code_started
                                   \/ \E kw \in LineKeywords : In(kw, line)
                  IN  IF started
                      THEN <<line>> \o ScanLines(Tail(lines), started)
                      ELSE ScanLines(Tail(lines), started)

\* mutant of extract_code_from_response: the last resort returns the
\* response as it is
extract_code_from_response_NoFinalStrip(r) ==
    LET tagged == FindAll(PonyOpen, FenceClose, r, 1)
        generic == FindAll(GenericOpen, FenceClose, r, 1)
        code_lines == ScanLines(SplitLines(r), FALSE)
    IN  IF tagged # <<>> THEN Strip(tagged[Len(tagged)])
        ELSE IF generic # <<>> THEN Strip(LastWithKeyword(generic, Len(generic)))
        ELSE IF code_lines # <<>> THEN Strip(JoinLines(code_lines))
        ELSE r

\* lines 190-229
extract_code_from_response(r) ==
    LET tagged == FindAll(PonyOpen, FenceClose, r, 1)
        generic == FindAll(GenericOpen, FenceClose, r, 1)
        code_lines == ScanLines(SplitLines(r), FALSE)
    IN  IF tagged # <<>> THEN Strip(tagged[Len(tagged)])
        ELSE IF generic # <<>> THEN Strip(LastWithKeyword(generic, Len(generic)))
        ELSE IF code_lines # <<>> THEN Strip(JoinLines(code_lines))
        ELSE Strip(r)

----------------------------------------------------------------------------
(* clean_pony_code: the substitutions of lines 234-243, each computed as   *)
(* re.sub computes it (leftmost match first, matches do not overlap), the  *)
(* balancing of lines 246-250 and the final strip.                         *)

Digits == {"0", "1", "2", "3", "4", "5", "6", "7", "8", "9"}

\* the characters \w matches
WordChars ==
    { UpperCase[k] : k \in 1..Len(UpperCase) }
        \cup { LowerCase[k] : k \in 1..Len(LowerCase) }
        \cup Digits \cup {"_"}

IsWord(s, i) == i >= 1 /\ i <= Len(s) /\ s[i] \in WordChars

\* \b holds between the positions i - 1 and i of s
Boundary(s, i) == IsWord(s, i - 1) # IsWord(s, i)

\* the literal lit stands in s at position i
At(lit, s, i) ==
    /\ i >= 1
    /\ i + Len(lit) - 1 <= Len(s)
    /\ SubSeq(s, i, i + Len(lit) - 1) = lit

\* a greedy run: the last position of the longest run of characters of cls
\* that starts at i (i - 1 when the run is empty)
RECURSIVE RunEnd(_, _, _)
RunEnd(s, i, cls) ==
    IF i <= Len(s) /\ s[i] \in cls THEN RunEnd(s, i + 1, cls) ELSE i - 1

\* line 234: re.sub(r'(\d+)[Uu]\b', r'\1', code): a U or u after a digit
\* and before a word boundary is dropped
RECURSIVE RemoveNumericSuffixes(_, _)
RemoveNumericSuffixes(s, i) ==
    IF i > Len(s) THEN <<>>
    ELSE IF /\ s[i] \in {"U", "u"}
            /\ i > 1 /\ s[i - 1] \in Digits
            /\ ~IsWord(s, i + 1)
         THEN RemoveNumericSuffixes(s, i + 1)
         ELSE <<s[i]>> \o RemoveNumericSuffixes(s, i + 1)

Package == <<"p", "a", "c", "k", "a", "g", "e">>

\* the last line break among the positions from..to of s, 0 when none
RECURSIVE LastNewline(_, _, _)
LastNewline(s, from, to) ==
    IF to < from THEN 0
    ELSE IF s[to] = "\n" THEN to
    ELSE LastNewline(s, from, to - 1)

\* line 237: the match of ^package\s+\w+\s*\n (MULTILINE) at position i:
\* the position of its last character, 0 when there is no match at i
PackageMatch(s, i) ==
    IF ~((i = 1 \/ s[i - 1] = "\n") /\ At(Package, s, i)) THEN 0
    ELSE LET a == i + Len(Package)
             b == RunEnd(s, a, Whitespace)
             c == RunEnd(s, b + 1, WordChars)
             d == RunEnd(s, c + 1, Whitespace)
         IN  IF b < a \/ c < b + 1 THEN 0 ELSE LastNewline(s, c + 1, d)

\* line 237: re.sub(r'^package\s+\w+\s*\n', '', code, flags=re.MULTILINE)
RECURSIVE RemovePackages(_, _)
RemovePackages(s, i) ==
    IF i > Len(s) THEN <<>>
    ELSE LET e == PackageMatch(s, i)
         IN  IF e # 0 THEN RemovePackages(s, e + 1)
             ELSE <<s[i]>> \o RemovePackages(s, i + 1)

DotValues == <<".", "v", "a", "l", "u", "e", "s", "(", ")">>

\* line 240: the match of \[([^\]]+)\]\.values\(\) at position i: the
\* position of the closing bracket, 0 when there is no match at i
ValuesMatch(s, i) ==
    IF s[i] # "[" THEN 0
    ELSE LET j == Find(<<"]">>, s, i + 1)
         IN  IF j > i + 1 /\ At(DotValues, s, j + 1) THEN j ELSE 0

\* line 240: re.sub(r'\[([^\]]+)\]\.values\(\)', r'[\1]', code)
RECURSIVE RemoveValues(_, _)
RemoveValues(s, i) ==
    IF i > Len(s) THEN <<>>
    ELSE LET j == ValuesMatch(s, i)
         IN  IF j # 0
             THEN SubSeq(s, i, j) \o RemoveValues(s, j + Len(DotValues) + 1)
             ELSE <<s[i]>> \o RemoveValues(s, i + 1)

\* line 243: the match of \w+\s*==\s*\w+ at position i: the position of its
\* last character, 0 when there is no match at i
EqualityMatch(s, i) ==
    LET a == RunEnd(s, i, WordChars)
        b == RunEnd(s, a + 1, Whitespace)
        c == RunEnd(s, b + 3, Whitespace)
        d == RunEnd(s, c + 1, WordChars)
    IN  IF a >= i /\ At(<<"=", "=">>, s, b + 1) /\ d >= c + 1 THEN d ELSE 0

\* line 243: the match of the whole pattern at position i: the ends of the
\* first comparison, of the operator and of the second comparison, and the
\* start of the second comparison; <<>> when there is no match at i
PrecedenceMatch(s, i) ==
    IF ~(Boundary(s, i) /\ IsWord(s, i)) THEN <<>>
    ELSE LET e1 == EqualityMatch(s, i)
             w1 == RunEnd(s, e1 + 1, Whitespace)
             op == IF At(<<"o", "r">>, s, w1 + 1) THEN w1 + 2
                   ELSE IF At(<<"a", "n", "d">>, s, w1 + 1) THEN w1 + 3
                   ELSE 0
             w2 == RunEnd(s, op + 1, Whitespace)
             e3 == EqualityMatch(s, w2 + 1)
         IN  IF e1 = 0 \/ w1 < e1 + 1 \/ op = 0 \/ w2 < op + 1 \/ e3 = 0
             THEN <<>>
             ELSE <<e1, w1 + 1, op, w2 + 1, e3>>

\* line 243: re.sub(..., r'(\1) \2 (\3)', code)
RECURSIVE GroupComparisons(_, _)
GroupComparisons(s, i) ==
    IF i > Len(s) THEN <<>>
    ELSE LET m == PrecedenceMatch(s, i)
         IN  IF m # <<>>
             THEN <<"(">> \o SubSeq(s, i, m[1]) \o <<")", " ">>
                    \o SubSeq(s, m[2], m[3]) \o <<" ", "(">>
                    \o SubSeq(s, m[4], m[5]) \o <<")">>
                    \o GroupComparisons(s, m[5] + 1)
             ELSE <<s[i]>> \o GroupComparisons(s, i + 1)

\* the word w stands in s at position i, between two word boundaries
WordAt(w, s, i) ==
    At(w, s, i) /\ Boundary(s, i) /\ Boundary(s, i + Len(w))

KwIf == <<"i", "f">>
KwThen == <<"t", "h", "e", "n">>
KwEnd == <<"e", "n", "d">>

\* line 246: len(re.findall(r'\bif\b.*\bthen\b', code)): . stops at a line
\* break and .* is greedy, so a line counts once when a word if is followed
\* on it by a word then
IfCount(s) ==
    LET lines == SplitLines(s)
    IN  Cardinality({ n \in 1..Len(lines) :
            \E i \in 1..Len(lines[n]), j \in 1..Len(lines[n]) :
                /\ WordAt(KwIf, lines[n], i)
                /\ j >= i + Len(KwIf)
                /\ WordAt(KwThen, lines[n], j) })

\* line 247: len(re.findall(r'\bend\b', code))
EndCount(s) == Cardinality({ i \in 1..Len(s) : WordAt(KwEnd, s, i) })

\* lines 248-250: code += '\n    end' while end_count < if_count
RECURSIVE AddEnds(_, _)
AddEnds(s, missing) ==
    IF missing <= 0 THEN s
    ELSE AddEnds(s \o <<"\n", " ", " ", " ", " ">> \o KwEnd, missing - 1)

\* lines 231-252
clean_pony_code(code) ==
    LET c1 == RemoveNumericSuffixes(code, 1)
        c2 == RemovePackages(c1, 1)
        c3 == RemoveValues(c2, 1)
        c4 == GroupComparisons(c3, 1)
    IN  Strip(AddEnds(c4, IfCount(c4) - EndCount(c4)))

----------------------------------------------------------------------------
(* The evaluation: inputs.                                                 *)

Task1 == [id |-> "basic_001", category |-> "basic_syntax", difficulty |-> "easy"]
Task2 == [id |-> "ref_001", category |-> "reference_capabilities", difficulty |-> "medium"]

\* the runs explored: two triples each, the second one reached by the step of
\* the task loop, of the strategy loop or of the model loop
Configs ==
    { [tasks |-> <<Task1, Task2>>, strategies |-> <<"zero_shot">>,
       models |-> <<"gemini-2.5-flash">>],
      [tasks |-> <<Task1>>, strategies |-> <<"zero_shot", "few_shot">>,
       models |-> <<"gemini-2.5-flash">>],
      [tasks |-> <<Task1>>, strategies |-> <<"zero_shot">>,
       models |-> <<"gemini-2.5-flash", "gemini-pro">>] }

\* what LLMClient.generate returns: an answer with a block tagged pony, or
\* the text of a failed call ("# Error ...", lines 169-188)
ModelResponses ==
    { PonyOpen \o <<"a">> \o FenceClose,
      <<"#", " ", "E", "r", "r", "o", "r">> }

\* the generated_code values an attempt can end up with (lines 310-311):
\* the model's response, extracted and cleaned
CodeSamples ==
    { clean_pony_code(extract_code_from_response(r)) : r \in ModelResponses }

\* stderr of a rejected compilation
ErrorText == <<"E", "r", "r", "o", "r">>

\* what the compiler subprocess does during an evaluation
EvalProcs == { Completed(0, <<>>, <<>>), Completed(1, <<>>, ErrorText),
               TimeoutExpired }

Raised(exc) == [kind |-> "raised", exc |-> exc]
Returned(v) == [kind |-> "returned", value |-> v]
NoCall == [kind |-> "none"]

----------------------------------------------------------------------------
(* Evaluator.evaluate_task, one action per step of an attempt.             *)

\* an exception leaves evaluate_task: control is back in run_evaluation
Raise(exc) ==
    /\ ret' = Raised(exc)
    /\ evaluated' = Append(evaluated, [triple |-> <<ti, si, mi>>, kind |-> "raised"])
    /\ pc' = "collect"

\* evaluate_task returns v
Return(v) ==
    /\ ret' = Returned(v)
    /\ evaluated' = Append(evaluated, [triple |-> <<ti, si, mi>>, kind |-> "returned"])
    /\ pc' = "collect"

\* lines 287-298: entry of evaluate_task and the first test of the loop
EvaluateTask ==
    /\ pc = "call"
    /\ all_attempts' = <<>>
    /\ attempt' = 0
    /\ gen' = <<>>
    /\ verdict' = <<FALSE, None>>
    /\ ret' = NoCall
    /\ llm_calls' = 0
    /\ compile_calls' = 0
    /\ attempt_log' = <<>>
    /\ pc' = IF max_retries > 0 THEN "generate" ELSE "exhausted"
    /\ UNCHANGED <<config, ti, si, mi, results, code_file, saved, reported,
                   evaluated>>
    /\ UNCHANGED <<compileVars, pureVars, call_log>>
    /\ UNCHANGED toolVars

\* mutant of Generate: an error text of the model client is not used, the
\* model is asked again
Generate_AsksAgainOnErrorText ==
    /\ pc = "generate"
    /\ \E code \in CodeSamples :
         /\ gen' = code
         /\ pc' = IF code[1] = "#" THEN "generate" ELSE "persist"
    /\ llm_calls' = llm_calls + 1
    /\ call_log' = Append(call_log, [triple |-> <<ti, si, mi>>, call |-> "generate"])
    /\ UNCHANGED <<config, ti, si, mi, attempt, all_attempts, verdict, ret,
                   results, code_file, saved, reported, compile_calls,
                   attempt_log, evaluated>>
    /\ UNCHANGED <<compileVars, pureVars>>
    /\ UNCHANGED toolVars

\* lines 302-311: prompt, model call, extraction and cleaning
Generate ==
    /\ pc = "generate"
    /\ \E code \in CodeSamples : gen' = code
    /\ llm_calls' = llm_calls + 1
    /\ call_log' = Append(call_log, [triple |-> <<ti, si, mi>>, call |-> "generate"])
    /\ pc' = "persist"
    /\ UNCHANGED <<config, ti, si, mi, attempt, all_attempts, verdict, ret,
                   results, code_file, saved, reported, compile_calls,
                   attempt_log, evaluated>>
    /\ UNCHANGED <<compileVars, pureVars>>
    /\ UNCHANGED toolVars

\* line 315: the name of the generated-code file of a triple, below
\* <output_dir>/generated_code/
CodeFileOf(task, strategy, model) ==
    task.id \o "_" \o strategy \o "_" \o model \o ".pony"

\* the generated-code file of the triple being evaluated
CodeFile == CodeFileOf(tasks[ti], strategies[si], models[mi])

\* the generated-code files a run over the lists of c can write
GeneratedCodeFiles(c) ==
    { CodeFileOf(c.tasks[t], c.strategies[s], c.models[m]) :
        t \in 1..Len(c.tasks), s \in 1..Len(c.strategies), m \in 1..Len(c.models) }

\* line 320: the name of the scratch directory of the current attempt, below
\* <output_dir>/compilation_work/
WorkDir ==
    tasks[ti].id \o "_" \o strategies[si] \o "_" \o models[mi]
        \o "_attempt" \o ToString(attempt + 1)

\* mutant of Persist: the generated code is saved on every attempt
Persist_EveryAttempt ==
    /\ pc = "persist"
    /\ \E ok \in BOOLEAN :
         IF ok
         THEN /\ code_file' = [code_file EXCEPT ![CodeFile] = Some(gen)]
              /\ pc' = "mkdir"
              /\ UNCHANGED <<ret, evaluated>>
         ELSE /\ Raise("OSError")
              /\ UNCHANGED code_file
    /\ UNCHANGED <<config, ti, si, mi, attempt, all_attempts, gen, verdict,
                   results, saved, reported, llm_calls, compile_calls,
                   attempt_log>>
    /\ UNCHANGED <<compileVars, pureVars, call_log>>
    /\ UNCHANGED toolVars

\* lines 313-316: the generated code is saved on the first and the last attempt;
\* write_text raises OSError when the file cannot be written
Persist ==
    /\ pc = "persist"
    /\ IF attempt = 0 \/ attempt = max_retries - 1
       THEN \E ok \in BOOLEAN :
              IF ok
              THEN /\ code_file' = [code_file EXCEPT ![CodeFile] = Some(gen)]
                   /\ pc' = "mkdir"
                   /\ UNCHANGED <<ret, evaluated>>
              ELSE /\ Raise("OSError")
                   /\ UNCHANGED code_file
       ELSE /\ pc' = "mkdir"
            /\ UNCHANGED <<code_file, ret, evaluated>>
    /\ UNCHANGED <<config, ti, si, mi, attempt, all_attempts, gen, verdict,
                   results, saved, reported, llm_calls, compile_calls,
                   attempt_log>>
    /\ UNCHANGED <<compileVars, pureVars, call_log>>
    /\ UNCHANGED toolVars

\* lines 320-321: work_dir.mkdir(parents=True, exist_ok=True)
MkDir ==
    /\ pc = "mkdir"
    /\ \E ok \in BOOLEAN :
         IF ok THEN pc' = "compile" /\ UNCHANGED <<ret, evaluated>>
               ELSE Raise("OSError")
    /\ UNCHANGED <<config, ti, si, mi, attempt, all_attempts, gen, verdict,
                   results, code_file, saved, reported, llm_calls, compile_calls,
                   attempt_log>>
    /\ UNCHANGED <<compileVars, pureVars, call_log>>
    /\ UNCHANGED toolVars

\* line 323: success, error = self.compiler.compile_code(generated_code, work_dir)
Compile ==
    /\ pc = "compile"
    /\ \E dir_ok \in BOOLEAN, proc \in EvalProcs :
         LET r == compile_code(gen, dir_ok, proc)
         IN  /\ cc_in' = [code |-> gen, dir_ok |-> dir_ok, proc |-> proc]
             /\ cc_ret' = r
             /\ main_file' = MainFile(gen, dir_ok)
             /\ IF r.kind = "raise"
                THEN /\ Raise(r.exc)
                     /\ UNCHANGED <<verdict, attempt_log>>
                ELSE /\ verdict' = r.value
                     /\ attempt_log' = Append(attempt_log,
                            [number |-> attempt + 1, code |-> gen,
                             success |-> r.value[1], error |-> r.value[2]])
                     /\ pc' = "record"
                     /\ UNCHANGED <<ret, evaluated>>
    /\ compile_calls' = compile_calls + 1
    /\ call_log' = Append(call_log, [triple |-> <<ti, si, mi>>, call |-> "compile_code",
                                     work_dir |-> WorkDir])
    /\ UNCHANGED <<config, ti, si, mi, attempt, all_attempts, gen, results,
                   code_file, saved, reported, llm_calls>>
    /\ UNCHANGED pureVars
    /\ UNCHANGED toolVars

\* mutant of AttemptResult: is_retry is set from the third attempt on
AttemptResult_RetryFromThird ==
    [ task_id |-> tasks[ti].id,
      category |-> tasks[ti].category,
      difficulty |-> tasks[ti].difficulty,
      strategy |-> strategies[si],
      model |-> models[mi],
      generated_code |-> gen,
      compilation_success |-> verdict[1],
      compilation_error |-> verdict[2],
      syntax_correct |-> verdict[1],
      attempt_number |-> attempt + 1,
      is_retry |-> attempt > 1 ]

\* lines 328-344: the result of this attempt
AttemptResult ==
    [ task_id |-> tasks[ti].id,
      category |-> tasks[ti].category,
      difficulty |-> tasks[ti].difficulty,
      strategy |-> strategies[si],
      model |-> models[mi],
      generated_code |-> gen,
      compilation_success |-> verdict[1],
      compilation_error |-> verdict[2],
      syntax_correct |-> verdict[1],
      attempt_number |-> attempt + 1,
      is_retry |-> attempt > 0 ]

WithRetryInfo(result, retry_count, total_attempts) ==
    result @@ [retry_count |-> retry_count, total_attempts |-> total_attempts]

\* mutant of SuccessOutcome: total_attempts is the number of attempts allowed
SuccessOutcome_TotalIsMaxRetries ==
    WithRetryInfo(AttemptResult, attempt, max_retries)

\* mutant of SuccessOutcome: retry_count counted like total_attempts (1-based)
SuccessOutcome_RetryCountOneBased ==
    WithRetryInfo(AttemptResult, attempt + 1, attempt + 1)

\* lines 350-352: the outcome returned on success
SuccessOutcome == WithRetryInfo(AttemptResult, attempt, attempt + 1)

\* mutant of ExhaustedOutcome: all_attempts[0] instead of all_attempts[-1]
ExhaustedOutcome_FirstAttempt ==
    WithRetryInfo(all_attempts[1], max_retries - 1, max_retries)

\* lines 365-369: the outcome returned when every attempt failed
ExhaustedOutcome ==
    WithRetryInfo(all_attempts[Len(all_attempts)], max_retries - 1, max_retries)

\* mutant of Record: the return on success is missing, the loop goes on
Record_NoReturnOnSuccess ==
    /\ pc = "record"
    /\ all_attempts' = Append(all_attempts, AttemptResult)
    /\ attempt' = attempt + 1
    /\ pc' = IF attempt + 1 < max_retries THEN "generate" ELSE "exhausted"
    /\ UNCHANGED <<ret, evaluated>>
    /\ UNCHANGED <<config, ti, si, mi, gen, verdict, results, code_file,
                   saved, reported, llm_calls, compile_calls, attempt_log>>
    /\ UNCHANGED <<compileVars, pureVars, call_log>>
    /\ UNCHANGED toolVars

\* lines 346-360 and the loop's next test (line 298): record the attempt,
\* return it on success, go round again otherwise
Record ==
    /\ pc = "record"
    /\ all_attempts' = Append(all_attempts, AttemptResult)
    /\ IF verdict[1]
       THEN /\ Return(SuccessOutcome)
            /\ UNCHANGED attempt
       ELSE /\ attempt' = attempt + 1
            /\ pc' = IF attempt + 1 < max_retries THEN "generate" ELSE "exhausted"
            /\ UNCHANGED <<ret, evaluated>>
    /\ UNCHANGED <<config, ti, si, mi, gen, verdict, results, code_file,
                   saved, reported, llm_calls, compile_calls, attempt_log>>
    /\ UNCHANGED <<compileVars, pureVars, call_log>>
    /\ UNCHANGED toolVars

\* lines 362-369: every attempt failed.  With no attempt made, final_result is
\* the set literal {...} and the item assignment raises TypeError.
Exhausted ==
    /\ pc = "exhausted"
    /\ IF all_attempts # <<>>
       THEN Return(ExhaustedOutcome)
       ELSE Raise("TypeError")
    /\ UNCHANGED <<config, ti, si, mi, attempt, all_attempts, gen, verdict,
                   results, code_file, saved, reported, llm_calls, compile_calls,
                   attempt_log>>
    /\ UNCHANGED <<compileVars, pureVars, call_log>>
    /\ UNCHANGED toolVars

----------------------------------------------------------------------------
(* Evaluator.run_evaluation.                                               *)

\* mutant of NextTriple: the loop over the strategies is the innermost one
NextTriple_StrategiesInnermost ==
    IF si < Len(strategies)
    THEN si' = si + 1 /\ UNCHANGED <<ti, mi>> /\ pc' = "call"
    ELSE IF mi < Len(models)
    THEN si' = 1 /\ mi' = mi + 1 /\ UNCHANGED ti /\ pc' = "call"
    ELSE IF ti < Len(tasks)
    THEN mi' = 1 /\ si' = 1 /\ ti' = ti + 1 /\ pc' = "call"
    ELSE UNCHANGED <<ti, si, mi>> /\ pc' = "save"

\* lines 390-392: the step of the three nested loops to the next triple, or
\* past the last one to save_results
NextTriple ==
    IF mi < Len(models)
    THEN mi' = mi + 1 /\ UNCHANGED <<ti, si>> /\ pc' = "call"
    ELSE IF si < Len(strategies)
    THEN mi' = 1 /\ si' = si + 1 /\ UNCHANGED ti /\ pc' = "call"
    ELSE IF ti < Len(tasks)
    THEN mi' = 1 /\ si' = 1 /\ ti' = ti + 1 /\ pc' = "call"
    ELSE UNCHANGED <<ti, si, mi>> /\ pc' = "save"

\* mutant of Collect: no except clause, an exception ends run_evaluation
Collect_NoExcept ==
    /\ pc = "collect"
    /\ IF ret.kind = "returned"
       THEN results' = Append(results, ret.value) /\ NextTriple
       ELSE UNCHANGED <<results, ti, si, mi>> /\ pc' = "done"
    /\ UNCHANGED <<config, attempt, all_attempts, gen, verdict, ret, code_file,
                   saved, reported, llm_calls, compile_calls, attempt_log,
                   evaluated>>
    /\ UNCHANGED <<compileVars, pureVars, call_log>>
    /\ UNCHANGED toolVars

\* lines 396-403: the try/except around evaluate_task: a returned outcome is
\* appended, an exception is printed and the loop continues
Collect ==
    /\ pc = "collect"
    /\ results' = IF ret.kind = "returned" THEN Append(results, ret.value)
                                           ELSE results
    /\ NextTriple
    /\ UNCHANGED <<config, attempt, all_attempts, gen, verdict, ret, code_file,
                   saved, reported, llm_calls, compile_calls, attempt_log,
                   evaluated>>
    /\ UNCHANGED <<compileVars, pureVars, call_log>>
    /\ UNCHANGED toolVars

\* line 406: self.save_results()
SaveResults ==
    /\ pc = "save"
    /\ saved' = saved + 1
    /\ pc' = "report"
    /\ UNCHANGED <<config, ti, si, mi, attempt, all_attempts, gen, verdict,
                   ret, results, code_file, reported, llm_calls, compile_calls,
                   attempt_log, evaluated>>
    /\ UNCHANGED <<compileVars, pureVars, call_log>>
    /\ UNCHANGED toolVars

\* line 407: self.generate_report()
GenerateReport ==
    /\ pc = "report"
    /\ reported' = reported + 1
    /\ pc' = "done"
    /\ UNCHANGED <<config, ti, si, mi, attempt, all_attempts, gen, verdict,
                   ret, results, code_file, saved, llm_calls, compile_calls,
                   attempt_log, evaluated>>
    /\ UNCHANGED <<compileVars, pureVars, call_log>>
    /\ UNCHANGED toolVars

\* the state after Evaluator.__init__, at the first triple of run_evaluation
Init ==
    /\ max_retries \in (-1)..MaxRetries
    /\ \E c \in Configs :
         /\ tasks = c.tasks
         /\ strategies = c.strategies
         /\ models = c.models
         /\ code_file = [f \in GeneratedCodeFiles(c) |-> None]
    /\ ti = 1 /\ si = 1 /\ mi = 1
    /\ pc = "call"
    /\ attempt = 0
    /\ all_attempts = <<>>
    /\ gen = <<>>
    /\ verdict = <<FALSE, None>>
    /\ ret = NoCall
    /\ results = <<>>
    /\ saved = 0
    /\ reported = 0
    /\ llm_calls = 0
    /\ compile_calls = 0
    /\ attempt_log = <<>>
    /\ evaluated = <<>>
    /\ call_log = <<>>
    /\ cc_in = NoCall
    /\ cc_ret = NoCall
    /\ main_file = None
    /\ response = <<>>
    /\ extracted = None
    /\ cleaned = <<>>
    /\ prompt_log = <<>>
    /\ dataset = [tasks |-> tasks, metadata |-> [total_tasks |-> Len(tasks)]]
    /\ task_filter = None
    /\ results_summary = <<>>
    /\ batch_ret = NoCall
    /\ add_log = <<>>

Next ==
    \/ EvaluateTask
    \/ Generate
    \/ Persist
    \/ MkDir
    \/ Compile
    \/ Record
    \/ Exhausted
    \/ Collect
    \/ SaveResults
    \/ GenerateReport

Spec == Init /\ [][Next]_vars

----------------------------------------------------------------------------
(* Properties of the retry loop and of the orchestrator.                   *)

\* C1: the outcome evaluate_task returns has total_attempts <= max_retries
\* and retry_count = total_attempts - 1, whatever max_retries and whatever
\* the compile verdicts were.
C1_RetryCounters ==
    ret.kind = "returned" =>
        /\ ret.value.total_attempts <= max_retries
        /\ ret.value.retry_count = ret.value.total_attempts - 1

\* a success on the last allowed attempt, after failures
C1_Witness ==
    /\ ret.kind = "returned"
    /\ ret.value.compilation_success
    /\ ret.value.total_attempts = max_retries
    /\ max_retries >= 2

\* the state of the retry loop, as the specification names it
LoopState ==
    CASE pc \in {"generate", "persist", "mkdir", "compile", "record"} ->
            <<"Attempting", attempt + 1>>
      [] pc = "exhausted" -> <<"LoopEnded">>
      [] ret.kind = "raised" -> <<"Raised">>
      [] ret.kind = "returned" /\ ret.value.compilation_success ->
            <<"Succeeded", ret.value.attempt_number>>
      [] ret.kind = "returned" /\ ~ret.value.compilation_success ->
            <<"Exhausted">>
      [] OTHER -> <<"NotStarted">>

\* C2: every evaluate_task call ends in one of the terminal states
\* Succeeded(n) or Exhausted, after at most max_retries attempts.
C2_TerminalStates ==
    pc = "collect" =>
        /\ LoopState[1] \in {"Succeeded", "Exhausted"}
        /\ llm_calls <= max_retries

\* C3: once attempt k compiles (attempts 1..k-1 having failed), the call
\* returns retry_count = k-1 and total_attempts = k, and no further model
\* call or compiler call is made.
C3_StopsAtFirstSuccess ==
    \A k \in 1..Len(attempt_log) :
        attempt_log[k].success =>
            /\ k = Len(attempt_log)
            /\ \A j \in 1..(k - 1) : ~attempt_log[j].success
            /\ llm_calls = k
            /\ compile_calls = k
            /\ pc \notin {"generate", "persist", "mkdir", "compile", "exhausted"}
            /\ pc # "record" =>
                  /\ ret.kind = "returned"
                  /\ ret.value.retry_count = k - 1
                  /\ ret.value.total_attempts = k

\* attempt 2 of 3 allowed compiled after attempt 1 failed
C3_Witness ==
    /\ pc = "collect"
    /\ max_retries = 3
    /\ Len(attempt_log) = 2
    /\ ~attempt_log[1].success
    /\ attempt_log[2].success

\* the attempt whose data evaluate_task is to return: the first that compiled,
\* the last one when none did
ChosenAttempt ==
    LET succ == {k \in 1..Len(attempt_log) : attempt_log[k].success}
    IN  IF succ # {}
        THEN CHOOSE k \in succ : \A j \in succ : k <= j
        ELSE Len(attempt_log)

\* C4: the returned outcome carries generated_code, compilation_success,
\* compilation_error and attempt_number of the first attempt that compiled,
\* or of the last attempt made when none compiled.
C4_OutcomeData ==
    ret.kind = "returned" =>
        LET a == attempt_log[ChosenAttempt]
        IN  /\ ret.value.generated_code = a.code
            /\ ret.value.compilation_success = a.success
            /\ ret.value.compilation_error = a.error
            /\ ret.value.attempt_number = a.number

\* three failed attempts, the last one with other code and another
\* diagnostic than the first
C4_Witness ==
    /\ ret.kind = "returned"
    /\ ~ret.value.compilation_success
    /\ Len(attempt_log) = 3
    /\ attempt_log[1].code # attempt_log[3].code
    /\ attempt_log[1].error # attempt_log[3].error

\* C5: no exception escapes evaluate_task, for every max_retries (0 included)
\* and every model, compiler and file-system outcome.
C5_NoExceptionEscapes == ret.kind # "raised"

\* the names of triple <<t, s, m>>, as a result carries them
TripleNames(k) == <<tasks[k[1]].id, strategies[k[2]], models[k[3]]>>

\* the tasks x strategies x models cross product, in the order of the loops
CrossProduct ==
    LET S == Len(strategies)
        M == Len(models)
    IN  [i \in 1..(Len(tasks) * S * M) |->
            <<((i - 1) \div (S * M)) + 1,
              (((i - 1) \div M) % S) + 1,
              ((i - 1) % M) + 1>>]

IsReturned(e) == e.kind = "returned"

\* the evaluate_task calls run_evaluation has dealt with so far
Collected ==
    IF pc = "collect" THEN SubSeq(evaluated, 1, Len(evaluated) - 1) ELSE evaluated

\* C6: a triple whose evaluation raises is left out of results, the
\* remaining triples of the cross product are still evaluated, and
\* save_results is reached.
C6_RaisedTripleSkipped ==
    /\ LET kept == SelectSeq(Collected, IsReturned)
       IN  /\ Len(results) = Len(kept)
           /\ \A i \in 1..Len(kept) :
                <<results[i].task_id, results[i].strategy, results[i].model>>
                    = TripleNames(kept[i].triple)
    /\ pc \in {"report", "done"} =>
          /\ saved = 1
          /\ [i \in 1..Len(evaluated) |-> evaluated[i].triple] = CrossProduct
    /\ pc # "done" => ENABLED Next

\* the first triple raised, the second was evaluated and saved
C6_Witness ==
    /\ pc = "done"
    /\ saved = 1
    /\ evaluated[1].kind = "raised"
    /\ evaluated[2].kind = "returned"
    /\ Len(results) = 1

----------------------------------------------------------------------------
(* PonyCompiler.compile_code on its own: every call, on any source, with   *)
(* any state of the scratch directory and any behaviour of the subprocess. *)

\* texts the compiler prints
OutputSamples ==
    { <<>>,
      Verifying,
      Writing,
      <<"V", "e", "r", "i", "f">>,
      <<"y", "i", "n", "g">>,
      <<"v", "e", "r", "i", "f", "y", "i", "n", "g">>,
      <<" ">> \o Writing \o <<"\n">>,
      ErrorText }

\* str(e) of the exceptions subprocess.run raises
ExceptionTexts ==
    { <<"N", "o", " ", "s", "u", "c", "h", " ", "f", "i", "l", "e">>,
      <<"d", "e", "n", "i", "e", "d">> }

CompileProcs ==
    { Completed(rc, out, err) : rc \in {0, 1, -11},
                                 out \in OutputSamples, err \in OutputSamples }
    \cup { TimeoutExpired }
    \cup { LaunchError(e) : e \in ExceptionTexts }

\* an Evaluator at rest, no compile_code call made yet
InitCompile ==
    /\ Init
    /\ max_retries = 0
    /\ tasks = <<Task1, Task2>>

\* one call compile_code(code, work_dir)
CompileCall ==
    /\ cc_ret = NoCall
    /\ \E code \in CodeSamples, dir_ok \in BOOLEAN, proc \in CompileProcs :
         /\ cc_in' = [code |-> code, dir_ok |-> dir_ok, proc |-> proc]
         /\ cc_ret' = compile_code(code, dir_ok, proc)
         /\ main_file' = MainFile(code, dir_ok)
    /\ UNCHANGED <<evalVars, pureVars>>
    /\ UNCHANGED toolVars

SpecCompile == InitCompile /\ [][CompileCall]_vars

\* sub occurs in s at position i
OccursAt(sub, s, i) ==
    /\ i + Len(sub) - 1 <= Len(s)
    /\ SubSeq(s, i, i + Len(sub) - 1) = sub

\* sub occurs somewhere in s
Occurs(sub, s) == \E i \in 1..(Len(s) + 1) : OccursAt(sub, s, i)

\* the subprocess of the last call ran to completion
CompilerRan == cc_ret.kind = "return" /\ cc_in.proc.kind = "completed"

\* C7: when the compiler ran, compile_code returns (True, None) exactly when
\* the exit code is 0 or stdout+stderr contains "Verifying" or "Writing",
\* and (False, stderr) otherwise.
C7_SuccessClassification ==
    CompilerRan =>
        LET p == cc_in.proc
            combined == p.stdout \o p.stderr
            ok == \/ p.returncode = 0
                  \/ Occurs(Verifying, combined)
                  \/ Occurs(Writing, combined)
        IN  /\ cc_ret.value[1] = ok
            /\ ok => cc_ret.value[2] = None
            /\ ~ok => cc_ret.value = <<FALSE, Some(p.stderr)>>

\* a non-zero exit whose marker shows only in stdout and stderr put together
C7_Witness ==
    /\ CompilerRan
    /\ cc_in.proc.returncode # 0
    /\ ~Occurs(Verifying, cc_in.proc.stdout)
    /\ ~Occurs(Verifying, cc_in.proc.stderr)
    /\ ~Occurs(Writing, cc_in.proc.stdout \o cc_in.proc.stderr)
    /\ cc_ret.value = <<TRUE, None>>

\* C8: a timeout returns (False, "Compilation timeout (30s)"); any other
\* failure e of the launch returns (False, d) with d embedding the text of
\* e; both are failures with a diagnostic that is not None.
C8_TimeoutAndLaunchFailure ==
    cc_ret.kind = "return" =>
        /\ cc_in.proc.kind = "timeout" =>
              cc_ret.value = <<FALSE, Some(TimeoutText)>>
        /\ cc_in.proc.kind = "error" =>
              /\ cc_ret.value[1] = FALSE
              /\ cc_ret.value[2] # None
              /\ Occurs(cc_in.proc.text, cc_ret.value[2][2])
        /\ cc_in.proc.kind \in {"timeout", "error"} =>
              /\ cc_ret.value[1] = FALSE
              /\ cc_ret.value[2] # None

\* the launch failed with a non-empty error text
C8_Witness ==
    /\ cc_ret.kind = "return"
    /\ cc_in.proc.kind = "error"
    /\ cc_in.proc.text # <<>>
    /\ cc_ret.value[1] = FALSE

\* C9: compile_code never raises, whatever the source text and the state of
\* the scratch directory: every call returns a (success, diagnostic) pair.
C9_NeverRaises == cc_ret.kind # "raise"

----------------------------------------------------------------------------
(* extract_code_from_response on its own: one call on a response made of   *)
(* fences, tags, code and line breaks in any order.                        *)

\* a response is a concatenation of at most MaxChunks chunks
MaxChunks == 5

Fence == <<BQ, BQ, BQ>>

ResponseChunks ==
    { PonyOpen, FenceClose, Fence, <<"x">>, <<"y">>, <<"\n">> }

RECURSIVE Concat(_)
Concat(chunks) ==
    IF chunks = <<>> THEN <<>> ELSE Head(chunks) \o Concat(Tail(chunks))

Responses ==
    { Concat(cs) : cs \in UNION { [1..n -> ResponseChunks] : n \in 0..MaxChunks } }

InitExtract ==
    /\ Init
    /\ max_retries = 0
    /\ tasks = <<Task1, Task2>>

\* one call extract_code_from_response(r)
ExtractCall ==
    /\ extracted = None
    /\ \E r \in Responses :
         /\ response' = r
         /\ extracted' = Some(extract_code_from_response(r))
    /\ UNCHANGED <<evalVars, compileVars, repairVars, promptVars>>
    /\ UNCHANGED toolVars

SpecExtract == InitExtract /\ [][ExtractCall]_vars

\* a fenced block tagged pony, read line by line: it opens with a line
\* ```pony, closes with the next line ```, and its content is the lines in
\* between.  LineBlocks gives the contents of the blocks of lines, in order.
RECURSIVE LineBlocks(_, _, _)
LineBlocks(lines, open, content) ==
    IF lines = <<>> THEN <<>>
    ELSE IF ~open
    THEN LineBlocks(Tail(lines), Head(lines) = Fence \o <<"p", "o", "n", "y">>, <<>>)
    ELSE IF Head(lines) = Fence
    THEN <<JoinLines(content)>> \o LineBlocks(Tail(lines), FALSE, <<>>)
    ELSE LineBlocks(Tail(lines), TRUE, Append(content, Head(lines)))

TaggedBlocks(r) == LineBlocks(SplitLines(r), FALSE, <<>>)

\* C10: for a response with one or more blocks tagged pony, the result is
\* the trimmed content of the last tagged block, and holds no ``` fence.
\* (Stated for the responses whose last tagged block holds no ``` itself.)
C10_LastTaggedBlock ==
    (extracted # None /\ TaggedBlocks(response) # <<>>) =>
        LET blocks == TaggedBlocks(response)
            last == blocks[Len(blocks)]
        IN  ~Occurs(Fence, last) =>
                /\ extracted[2] = Strip(last)
                /\ ~Occurs(Fence, extracted[2])

----------------------------------------------------------------------------
(* extract_code_from_response on prose: one call on a response made of     *)
(* words, keywords, explanatory markers, blanks, line breaks and fences.   *)

\* a prose response is a concatenation of at most MaxWords chunks
MaxWords == 5

Here == <<"H", "e", "r", "e">>

ProseChunks == { Fence, <<"\n">>, <<" ">>, <<"x">>, KwFun, KwBe, Here }

ProseResponses ==
    { Concat(cs) : cs \in UNION { [1..n -> ProseChunks] : n \in 0..MaxWords } }

\* one call extract_code_from_response(r) on a prose response
ExtractProse ==
    /\ extracted = None
    /\ \E r \in ProseResponses :
         /\ response' = r
         /\ extracted' = Some(extract_code_from_response(r))
    /\ UNCHANGED <<evalVars, compileVars, repairVars, promptVars>>
    /\ UNCHANGED toolVars

SpecProse == InitExtract /\ [][ExtractProse]_vars

\* the number of ``` fences in s, counted from position from on
RECURSIVE FenceCount(_, _)
FenceCount(s, from) ==
    LET i == Find(Fence, s, from)
    IN  IF i = 0 THEN 0 ELSE 1 + FenceCount(s, i + Len(Fence))

\* a fenced block is a span between two fences: with fewer than two fences
\* the response holds none
NoFencedBlock(r) == FenceCount(r, 1) < 2

\* actor, class, primitive, fun, be
C11_Keywords ==
    { <<"a", "c", "t", "o", "r">>, <<"c", "l", "a", "s", "s">>,
      <<"p", "r", "i", "m", "i", "t", "i", "v", "e">>, <<"f", "u", "n">>,
      <<"b", "e">> }

\* C11: for a response with no fenced block and none of the keywords actor,
\* class, primitive, fun, be anywhere, the result is the whole response with
\* leading and trailing whitespace removed.
C11_TrimmedWhole ==
    ( /\ extracted # None
      /\ NoFencedBlock(response)
      /\ \A kw \in C11_Keywords : ~Occurs(kw, response) ) =>
        extracted[2] = Strip(response)

\* a keyword-free response with a stray fence, an explanatory marker and
\* whitespace to trim
C11_Witness ==
    /\ extracted # None
    /\ NoFencedBlock(response)
    /\ \A kw \in C11_Keywords : ~Occurs(kw, response)
    /\ Occurs(Fence, response)
    /\ Occurs(Here, response)
    /\ response # Strip(response)
    /\ extracted[2] = Strip(response)

C12_Explanatory(line) ==
    \E m \in { <<"h", "e", "r", "e">>,
                <<"e", "x", "a", "m", "p", "l", "e">>,
                <<"e", "x", "p", "l", "a", "n", "a", "t", "i", "o", "n">>,
                <<"#", "#", "#">>,
                <<"h", "o", "w", " ", "t", "o">> } : Occurs(m, Lower(line))

\* a line of code: not a line of explanation, and it holds actor, class,
\* primitive or fun
C12_CodeLine(line) ==
    /\ ~C12_Explanatory(line)
    /\ \E kw \in { <<"a", "c", "t", "o", "r">>, <<"c", "l", "a", "s", "s">>,
                    <<"p", "r", "i", "m", "i", "t", "i", "v", "e">>,
                    <<"f", "u", "n">> } : Occurs(kw, line)

----------------------------------------------------------------------------
(* clean_pony_code on its own: a call on a source text made of the         *)
(* constructs the substitutions look for, then a call on its result.       *)

\* a source text is a concatenation of at most MaxParts parts
MaxParts == 3

CodeParts ==
    { <<" ">>, <<"\n">>, <<"x">>,
      Package \o <<" ", "a", "\n">>,
      <<"1", "U">>,
      <<"[", "1", "]">>,
      DotValues,
      <<"a", " ", "=", "=", " ", "b">>,
      <<" ", "o", "r", " ">>,
      KwIf \o <<" ", "a", " ">> \o KwThen,
      KwEnd }

Sources ==
    { Concat(ps) : ps \in UNION { [1..n -> CodeParts] : n \in 0..MaxParts } }

\* clean_pony_code(code) for a source text code
CleanCall ==
    /\ cleaned = <<>>
    /\ \E code \in Sources :
         cleaned' = <<[arg |-> code, result |-> clean_pony_code(code)]>>
    /\ UNCHANGED <<evalVars, compileVars, extractVars, promptVars>>
    /\ UNCHANGED toolVars

\* clean_pony_code applied to the result of the previous call
CleanAgain ==
    /\ Len(cleaned) = 1
    /\ LET code == cleaned[1].result
       IN  cleaned' = Append(cleaned,
                             [arg |-> code, result |-> clean_pony_code(code)])
    /\ UNCHANGED <<evalVars, compileVars, extractVars, promptVars>>
    /\ UNCHANGED toolVars

SpecClean == InitExtract /\ [][CleanCall \/ CleanAgain]_vars

\* C13: clean_pony_code is idempotent: cleaning the result of a call again
\* gives that result back.
C13_Idempotent ==
    Len(cleaned) = 2 => cleaned[2].result = cleaned[1].result

----------------------------------------------------------------------------
(* compile_code on source texts with and without an entry point: one call  *)
(* on a text made of actor Main, a function, the create line and filler.   *)

\* a source text is a concatenation of at most MaxPieces pieces
MaxPieces == 4

FunF == <<"f", "u", "n", " ", "f">>

SourcePieces ==
    { ActorMain, <<"\n">>, <<" ">>, <<"x">>, FunF, <<" ", " ">> \o CreateLine }

MainSources ==
    { Concat(ps) : ps \in UNION { [1..n -> SourcePieces] : n \in 0..MaxPieces } }

\* one call compile_code(code, work_dir) on such a text
NormalizeCall ==
    /\ cc_ret = NoCall
    /\ \E code \in MainSources, dir_ok \in BOOLEAN, proc \in EvalProcs :
         /\ cc_in' = [code |-> code, dir_ok |-> dir_ok, proc |-> proc]
         /\ cc_ret' = compile_code(code, dir_ok, proc)
         /\ main_file' = MainFile(code, dir_ok)
    /\ UNCHANGED <<evalVars, pureVars>>
    /\ UNCHANGED toolVars

SpecNormalize == InitCompile /\ [][NormalizeCall]_vars

\* C14: the text that compile_code writes to main.pony contains
\* "actor Main", whatever the source text.
C14_EntryPointPresent ==
    main_file # None =>
        Occurs(<<"a", "c", "t", "o", "r", " ", "M", "a", "i", "n">>, main_file[2])

\* a function that stood before actor Main was moved into it, after the
\* create line
C14_Witness ==
    /\ main_file # None
    /\ Occurs(FunF \o ActorMain, cc_in.code)
    /\ Occurs(CreateLine \o <<"\n", " ", " ">> \o FunF, main_file[2])

\* the number of top-level entry points of text: the lines that start with
\* the words actor Main
EntryPoints(text) ==
    LET lines == SplitLines(text)
        decl == <<"a", "c", "t", "o", "r", " ", "M", "a", "i", "n">>
    IN  Cardinality({ n \in 1..Len(lines) :
            /\ Len(lines[n]) >= Len(decl)
            /\ SubSeq(lines[n], 1, Len(decl)) = decl
            /\ ~IsWord(lines[n], Len(decl) + 1) })

\* C15: the text that compile_code writes to main.pony holds exactly one
\* top-level actor Main, never none and never two or more.
C15_SingleEntryPoint ==
    main_file # None => EntryPoints(main_file[2]) = 1

\* C16: for a source text without "actor Main", the text written is the
\* synthesized entry point (actor Main whose create prints "Compilation
\* test"), then the source text unchanged, then a line break.
C16_WrappedUnchanged ==
    (main_file # None /\ ~Occurs(ActorMain, cc_in.code)) =>
        LET entry ==
                <<"a", "c", "t", "o", "r", " ", "M", "a", "i", "n", "\n",
                  " ", " ", "n", "e", "w", " ", "c", "r", "e", "a", "t", "e",
                  "(", "e", "n", "v", ":", " ", "E", "n", "v", ")", " ", "=",
                  ">", "\n",
                  " ", " ", " ", " ", "e", "n", "v", ".", "o", "u", "t", ".",
                  "p", "r", "i", "n", "t", "(", "\"", "C", "o", "m", "p", "i",
                  "l", "a", "t", "i", "o", "n", " ", "t", "e", "s", "t", "\"",
                  ")", "\n", "\n">>
        IN  main_file[2] = entry \o cc_in.code \o <<"\n">>

\* a snippet with blanks and line breaks at both ends was wrapped
C16_Witness ==
    /\ main_file # None
    /\ ~Occurs(ActorMain, cc_in.code)
    /\ Occurs(FunF, cc_in.code)
    /\ Head(cc_in.code) = " "
    /\ cc_in.code[Len(cc_in.code)] = "\n"
    /\ Occurs(cc_in.code, main_file[2])

----------------------------------------------------------------------------
(* get_prompt (prompts/prompting_strategies.py).  The templates keep their *)
(* placeholders and the lines around them; the prose, the examples and the *)
(* answer formats in between are left out.                                  *)

\* the language context, abbreviated to its first line
PONY_LANGUAGE_CONTEXT ==
    <<"\n", "P", "o", "n", "y", " ", "i", "s", " ", "a", "n", " ", "a",
      "c", "t", "o", "r", "-", "m", "o", "d", "e", "l", " ", "p", "r", "o",
      "g", "r", "a", "m", "m", "i", "n", "g", " ", "l", "a", "n", "g", "u",
      "a", "g", "e", " ", "w", "i", "t", "h", ":", "\n">>

ZERO_SHOT_TEMPLATE ==
    <<"\n", "{", "t", "a", "s", "k", "_", "d", "e", "s", "c", "r", "i",
      "p", "t", "i", "o", "n", "}", "\n", "\n", "W", "r", "i", "t", "e",
      " ", "c", "o", "m", "p", "l", "e", "t", "e", ",", " ", "c", "o", "m",
      "p", "i", "l", "a", "b", "l", "e", " ", "P", "o", "n", "y", " ", "c",
      "o", "d", "e", " ", "t", "h", "a", "t", " ", "s", "o", "l", "v", "e",
      "s", " ", "t", "h", "i", "s", " ", "p", "r", "o", "b", "l", "e", "m",
      ".", "\n">>

FEW_SHOT_TEMPLATE ==
    <<"\n", "{", "l", "a", "n", "g", "u", "a", "g", "e", "_", "c", "o",
      "n", "t", "e", "x", "t", "}", "\n", "\n", "H", "e", "r", "e", " ",
      "a", "r", "e", " ", "e", "x", "a", "m", "p", "l", "e", "s", " ", "o",
      "f", " ", "P", "o", "n", "y", " ", "c", "o", "d", "e", ":", "\n",
      "\n", "N", "o", "w", " ", "s", "o", "l", "v", "e", " ", "t", "h",
      "i", "s", " ", "p", "r", "o", "b", "l", "e", "m", ":", "\n", "\n",
      "{", "t", "a", "s", "k", "_", "d", "e", "s", "c", "r", "i", "p", "t",
      "i", "o", "n", "}", "\n", "\n", "P", "r", "o", "v", "i", "d", "e",
      " ", "c", "o", "m", "p", "l", "e", "t", "e", ",", " ", "c", "o", "m",
      "p", "i", "l", "a", "b", "l", "e", " ", "P", "o", "n", "y", " ", "c",
      "o", "d", "e", ".", "\n">>

CHAIN_OF_THOUGHT_TEMPLATE ==
    <<"\n", "{", "l", "a", "n", "g", "u", "a", "g", "e", "_", "c", "o",
      "n", "t", "e", "x", "t", "}", "\n", "\n", "{", "t", "a", "s", "k",
      "_", "d", "e", "s", "c", "r", "i", "p", "t", "i", "o", "n", "}",
      "\n", "\n", "L", "e", "t", "'", "s", " ", "s", "o", "l", "v", "e",
      " ", "t", "h", "i", "s", " ", "s", "t", "e", "p", "-", "b", "y", "-",
      "s", "t", "e", "p", ":", "\n">>

SELF_DEBUG_TEMPLATE ==
    <<"\n", "{", "t", "a", "s", "k", "_", "d", "e", "s", "c", "r", "i",
      "p", "t", "i", "o", "n", "}", "\n", "\n", "W", "r", "i", "t", "e",
      " ", "P", "o", "n", "y", " ", "c", "o", "d", "e", " ", "t", "o", " ",
      "s", "o", "l", "v", "e", " ", "t", "h", "i", "s", " ", "p", "r", "o",
      "b", "l", "e", "m", ".", " ", "T", "h", "e", "n", ":", "\n">>

TRANSFER_RUST_TEMPLATE ==
    <<"\n", "{", "t", "a", "s", "k", "_", "d", "e", "s", "c", "r", "i",
      "p", "t", "i", "o", "n", "}", "\n", "\n", "F", "i", "r", "s", "t",
      ",", " ", "i", "m", "p", "l", "e", "m", "e", "n", "t", " ", "t", "h",
      "i", "s", " ", "i", "n", " ", "R", "u", "s", "t", ",", " ", "t", "h",
      "e", "n", " ", "c", "o", "n", "v", "e", "r", "t", " ", "i", "t", " ",
      "t", "o", " ", "P", "o", "n", "y", ".", "\n">>

TRANSFER_CPP_TEMPLATE ==
    <<"\n", "{", "t", "a", "s", "k", "_", "d", "e", "s", "c", "r", "i",
      "p", "t", "i", "o", "n", "}", "\n", "\n", "F", "i", "r", "s", "t",
      ",", " ", "i", "m", "p", "l", "e", "m", "e", "n", "t", " ", "t", "h",
      "i", "s", " ", "i", "n", " ", "C", "+", "+", ",", " ", "t", "h", "e",
      "n", " ", "c", "o", "n", "v", "e", "r", "t", " ", "i", "t", " ", "t",
      "o", " ", "P", "o", "n", "y", ".", "\n">>

CAPABILITY_FOCUSED_TEMPLATE ==
    <<"\n", "{", "l", "a", "n", "g", "u", "a", "g", "e", "_", "c", "o",
      "n", "t", "e", "x", "t", "}", "\n", "\n", "{", "t", "a", "s", "k",
      "_", "d", "e", "s", "c", "r", "i", "p", "t", "i", "o", "n", "}",
      "\n", "\n", "S", "p", "e", "c", "i", "a", "l", " ", "f", "o", "c",
      "u", "s", " ", "o", "n", " ", "r", "e", "f", "e", "r", "e", "n", "c",
      "e", " ", "c", "a", "p", "a", "b", "i", "l", "i", "t", "i", "e", "s",
      ":", "\n">>

ACTOR_FOCUSED_TEMPLATE ==
    <<"\n", "{", "l", "a", "n", "g", "u", "a", "g", "e", "_", "c", "o",
      "n", "t", "e", "x", "t", "}", "\n", "\n", "{", "t", "a", "s", "k",
      "_", "d", "e", "s", "c", "r", "i", "p", "t", "i", "o", "n", "}",
      "\n", "\n", "A", "c", "t", "o", "r", "-", "b", "a", "s", "e", "d",
      " ", "d", "e", "s", "i", "g", "n", " ", "c", "o", "n", "s", "i", "d",
      "e", "r", "a", "t", "i", "o", "n", "s", ":", "\n">>

CONTRASTIVE_TEMPLATE ==
    <<"\n", "{", "l", "a", "n", "g", "u", "a", "g", "e", "_", "c", "o",
      "n", "t", "e", "x", "t", "}", "\n", "\n", "{", "t", "a", "s", "k",
      "_", "d", "e", "s", "c", "r", "i", "p", "t", "i", "o", "n", "}",
      "\n", "\n", "C", "o", "m", "m", "o", "n", " ", "P", "o", "n", "y",
      " ", "M", "i", "s", "t", "a", "k", "e", "s", " ", "t", "o", " ", "A",
      "V", "O", "I", "D", ":", "\n">>

ANALOGICAL_TEMPLATE ==
    <<"\n", "{", "l", "a", "n", "g", "u", "a", "g", "e", "_", "c", "o",
      "n", "t", "e", "x", "t", "}", "\n", "\n", "T", "a", "s", "k", ":",
      " ", "{", "t", "a", "s", "k", "_", "d", "e", "s", "c", "r", "i", "p",
      "t", "i", "o", "n", "}", "\n", "\n", "B", "e", "f", "o", "r", "e",
      " ", "s", "o", "l", "v", "i", "n", "g", " ", "t", "h", "i", "s", ",",
      " ", "l", "e", "t", "'", "s", " ", "t", "h", "i", "n", "k", " ", "o",
      "f", " ", "s", "i", "m", "i", "l", "a", "r", " ", "P", "o", "n", "y",
      " ", "p", "r", "o", "g", "r", "a", "m", "m", "i", "n", "g", " ", "p",
      "r", "o", "b", "l", "e", "m", "s", " ", "a", "n", "d", " ", "h", "o",
      "w", " ", "t", "h", "e", "y", " ", "w", "e", "r", "e", " ", "s", "o",
      "l", "v", "e", "d", ".", "\n">>

EXPERT_METACOGNITIVE_TEMPLATE ==
    <<"\n", "-", " ", "C", "o", "m", "m", "o", "n", " ", "p", "i", "t",
      "f", "a", "l", "l", "s", " ", "a", "n", "d", " ", "b", "e", "s", "t",
      " ", "p", "r", "a", "c", "t", "i", "c", "e", "s", "\n", "\n", "{",
      "t", "a", "s", "k", "_", "d", "e", "s", "c", "r", "i", "p", "t", "i",
      "o", "n", "}", "\n", "\n", "B", "e", "f", "o", "r", "e", " ", "c",
      "o", "d", "i", "n", "g", ",", " ", "a", "n", "a", "l", "y", "z", "e",
      " ", "y", "o", "u", "r", " ", "a", "p", "p", "r", "o", "a", "c", "h",
      " ", "m", "e", "t", "a", "c", "o", "g", "n", "i", "t", "i", "v", "e",
      "l", "y", ":", "\n">>

LanguagePlaceholder == <<"{">> \o <<"l", "a", "n", "g", "u", "a", "g", "e", "_",
                                   "c", "o", "n", "t", "e", "x", "t">> \o <<"}">>
TaskPlaceholder == <<"{">> \o <<"t", "a", "s", "k", "_", "d", "e", "s", "c", "r",
                               "i", "p", "t", "i", "o", "n">> \o <<"}">>

\* Python: s.replace(old, new), for a non-empty old: the leftmost occurrence
\* is replaced, then the occurrences in the text after it
RECURSIVE Replace(_, _, _)
Replace(s, old, new) ==
    LET hits == { h \in 1..Len(s) : At(old, s, h) }
        i == IF hits = {} THEN 0
             ELSE CHOOSE h \in hits : \A g \in hits : h <= g
    IN  IF i = 0 THEN s
        ELSE SubSeq(s, 1, i - 1) \o new
                \o Replace(SubSeq(s, i + Len(old), Len(s)), old, new)

\* lines 388-400
templates ==
    [ zero_shot |-> ZERO_SHOT_TEMPLATE,
      few_shot |-> FEW_SHOT_TEMPLATE,
      chain_of_thought |-> CHAIN_OF_THOUGHT_TEMPLATE,
      self_debug |-> SELF_DEBUG_TEMPLATE,
      transfer_rust |-> TRANSFER_RUST_TEMPLATE,
      transfer_cpp |-> TRANSFER_CPP_TEMPLATE,
      capability_focused |-> CAPABILITY_FOCUSED_TEMPLATE,
      actor_focused |-> ACTOR_FOCUSED_TEMPLATE,
      contrapositive |-> CONTRASTIVE_TEMPLATE,
      analogical |-> ANALOGICAL_TEMPLATE,
      expert_persona |-> EXPERT_METACOGNITIVE_TEMPLATE ]

\* mutant of get_prompt: the task description is filled in first, the
\* language context after it
get_prompt_TaskFirst(strategy, task_description, category) ==
    LET template == IF strategy \in DOMAIN templates
                    THEN templates[strategy]
                    ELSE ZERO_SHOT_TEMPLATE
    IN  Replace(Replace(template, TaskPlaceholder, task_description),
                LanguagePlaceholder, PONY_LANGUAGE_CONTEXT)

\* lines 374-404
get_prompt(strategy, task_description, category) ==
    LET template == IF strategy \in DOMAIN templates
                    THEN templates[strategy]
                    ELSE ZERO_SHOT_TEMPLATE
    IN  Replace(Replace(template, LanguagePlaceholder, PONY_LANGUAGE_CONTEXT),
                TaskPlaceholder, task_description)

----------------------------------------------------------------------------
(* get_prompt on its own: a call, then a call that differs in the category *)
(* only.                                                                   *)

\* a task description is a concatenation of at most MaxTokens tokens
MaxTokens == 2

DescriptionTokens ==
    { <<"T">>, <<" ">>, TaskPlaceholder, LanguagePlaceholder }

Descriptions ==
    { Concat(ts) : ts \in UNION { [1..n -> DescriptionTokens] : n \in 0..MaxTokens } }

StrategyNames == DOMAIN templates \cup {"", "tree_of_thought"}

Categories == {"", "basic_syntax", "reference_capabilities"}

\* get_prompt(strategy, task_description, category)
GetPrompt ==
    /\ prompt_log = <<>>
    /\ \E strategy \in StrategyNames, d \in Descriptions, category \in Categories :
         prompt_log' = << [strategy |-> strategy, task_description |-> d,
                           category |-> category,
                           result |-> get_prompt(strategy, d, category)] >>
    /\ UNCHANGED <<evalVars, compileVars, extractVars, repairVars>>
    /\ UNCHANGED toolVars

\* the same call with another category
GetPromptOtherCategory ==
    /\ Len(prompt_log) = 1
    /\ \E category \in Categories \ {prompt_log[1].category} :
         LET c == prompt_log[1]
         IN  prompt_log' = Append(prompt_log,
                 [c EXCEPT !.category = category,
                           !.result = get_prompt(c.strategy, c.task_description,
                                                 category)])
    /\ UNCHANGED <<evalVars, compileVars, extractVars, repairVars>>
    /\ UNCHANGED toolVars

SpecPrompt == InitExtract /\ [][GetPrompt \/ GetPromptOtherCategory]_vars

\* the strategy identifiers get_prompt knows
C17_Known ==
    { "zero_shot", "few_shot", "chain_of_thought", "self_debug",
      "transfer_rust", "transfer_cpp", "capability_focused", "actor_focused",
      "contrapositive", "analogical", "expert_persona" }

----------------------------------------------------------------------------
(* run_evaluation over cross products with two lists of two: the step of   *)
(* an inner loop is followed by the step of the loop around it.            *)

\* max_retries of the runs over these cross products
OrderRetries == 2

OrderConfigs ==
    { [tasks |-> <<Task1, Task2>>, strategies |-> <<"zero_shot", "few_shot">>,
       models |-> <<"gemini-2.5-flash">>],
      [tasks |-> <<Task1>>, strategies |-> <<"zero_shot", "few_shot">>,
       models |-> <<"gemini-2.5-flash", "gemini-pro">>],
      [tasks |-> <<Task1, Task2>>, strategies |-> <<"zero_shot">>,
       models |-> <<"gemini-2.5-flash", "gemini-pro">>] }

InitOrder ==
    /\ max_retries = OrderRetries
    /\ \E c \in OrderConfigs :
         /\ tasks = c.tasks
         /\ strategies = c.strategies
         /\ models = c.models
         /\ code_file = [f \in GeneratedCodeFiles(c) |-> None]
    /\ ti = 1 /\ si = 1 /\ mi = 1
    /\ pc = "call"
    /\ attempt = 0
    /\ all_attempts = <<>>
    /\ gen = <<>>
    /\ verdict = <<FALSE, None>>
    /\ ret = NoCall
    /\ results = <<>>
    /\ saved = 0
    /\ reported = 0
    /\ llm_calls = 0
    /\ compile_calls = 0
    /\ attempt_log = <<>>
    /\ evaluated = <<>>
    /\ call_log = <<>>
    /\ cc_in = NoCall
    /\ cc_ret = NoCall
    /\ main_file = None
    /\ response = <<>>
    /\ extracted = None
    /\ cleaned = <<>>
    /\ prompt_log = <<>>
    /\ dataset = [tasks |-> tasks, metadata |-> [total_tasks |-> Len(tasks)]]
    /\ task_filter = None
    /\ results_summary = <<>>
    /\ batch_ret = NoCall
    /\ add_log = <<>>

\* the steps of Next, in the runs where the model answers the same code
\* every time and the compiler process runs to completion
NextOrder ==
    \/ EvaluateTask
    \/ Generate /\ gen' = <<"a">>
    \/ Persist
    \/ MkDir
    \/ Compile /\ cc_in'.proc.kind = "completed"
    \/ Record
    \/ Exhausted
    \/ Collect
    \/ SaveResults
    \/ GenerateReport

SpecOrder == InitOrder /\ [][NextOrder]_vars

\* the place of the triple <<t, s, m>> in the cross product tasks x
\* strategies x models
Rank(triple) ==
    ((triple[1] - 1) * Len(strategies) + (triple[2] - 1)) * Len(models)
        + triple[3]

\* the place in the cross product of the triple a result belongs to
ResultRank(r) ==
    Rank(<< CHOOSE t \in 1..Len(tasks) : tasks[t].id = r.task_id,
            CHOOSE s \in 1..Len(strategies) : strategies[s] = r.strategy,
            CHOOSE m \in 1..Len(models) : models[m] = r.model >>)

\* C18: the triples are evaluated one after another in the order of the
\* cross product tasks x strategies x models: the model calls and compiler
\* calls of a triple, retries included, all come before the first call of
\* the next triple; the results are appended in that order; the results
\* file is written once, after the last triple.
C18_StrictlySequential ==
    LET calls == [i \in 1..Len(call_log) |-> Rank(call_log[i].triple)]
        kept == [i \in 1..Len(results) |-> ResultRank(results[i])]
    IN  /\ \A k \in 1..Len(evaluated) : Rank(evaluated[k].triple) = k
        /\ \A i \in 1..Len(calls) : calls[i] <= Len(evaluated) + 1
        /\ \A i \in 1..(Len(calls) - 1) : calls[i] <= calls[i + 1]
        /\ \A i \in 1..(Len(kept) - 1) : kept[i] < kept[i + 1]
        /\ saved <= 1
        /\ saved = 1 =>
              /\ Len(evaluated) = Len(tasks) * Len(strategies) * Len(models)
              /\ pc \in {"report", "done"}
        /\ pc = "done" => saved = 1

\* a finished run over four triples, with a triple that was retried, a
\* triple that raised, and two or more results
C18_Witness ==
    /\ pc = "done"
    /\ Len(evaluated) = 4
    /\ \E e \in 1..4 : evaluated[e].kind = "raised"
    /\ Len(results) >= 2
    /\ \E i \in 1..Len(results) : results[i].total_attempts = 2
    /\ \E i \in 1..(Len(call_log) - 3) :
         /\ call_log[i].triple = call_log[i + 3].triple
         /\ call_log[i + 3].call = "compile_code"

----------------------------------------------------------------------------
(* evaluate_task: the calls of an attempt.                                 *)

\* the calls made so far for the triple being evaluated
CurrentCalls ==
    SelectSeq(call_log, LAMBDA c : c.triple = <<ti, si, mi>>)

\* C19: every attempt of evaluate_task makes one model call and then one
\* compile_code call: the calls of a triple alternate, model call first, an
\* error text of the model is compiled like any answer and not asked for
\* again, and when the evaluation returns the number of model calls, the
\* number of compiler calls and total_attempts are equal.
C19_OneCallEachPerAttempt ==
    /\ \A k \in 1..Len(CurrentCalls) :
         CurrentCalls[k].call = IF k % 2 = 1 THEN "generate" ELSE "compile_code"
    /\ (pc = "collect" /\ ret.kind = "returned") =>
          /\ llm_calls = ret.value.total_attempts
          /\ compile_calls = ret.value.total_attempts
          /\ Len(CurrentCalls) = 2 * ret.value.total_attempts
          /\ Len(attempt_log) = ret.value.total_attempts

\* an evaluation returned after three attempts, the model's answer to the
\* second one being an error text
C19_Witness ==
    /\ pc = "collect"
    /\ ret.kind = "returned"
    /\ ret.value.total_attempts = 3
    /\ attempt_log[2].code = <<"#", " ", "E", "r", "r", "o", "r">>
    /\ llm_calls = 3

\* C20: the attempts recorded by one evaluate_task call are numbered 1, 2,
\* 3, ... with no gap and no repeat, and an attempt is a retry exactly when
\* its number is greater than 1.
C20_AttemptNumbers ==
    \A k \in 1..Len(all_attempts) :
        /\ all_attempts[k].attempt_number = k
        /\ all_attempts[k].is_retry = (all_attempts[k].attempt_number > 1)

\* three attempts were recorded
C20_Witness ==
    /\ Len(all_attempts) = 3
    /\ all_attempts[3].is_retry
    /\ ~all_attempts[1].is_retry

----------------------------------------------------------------------------
(* evaluate_task: the generated-code file of a triple.                     *)

----------------------------------------------------------------------------
(* run_evaluation over lists whose names share parts: a task id that ends  *)
(* with the first word of a strategy name, a strategy listed twice, a      *)
(* model listed twice.                                                      *)

Task3 == [id |-> "cap", category |-> "reference_capabilities", difficulty |-> "easy"]
Task4 == [id |-> "cap_self", category |-> "reference_capabilities", difficulty |-> "hard"]

DirConfigs ==
    { [tasks |-> <<Task3, Task4>>, strategies |-> <<"self_debug", "debug">>,
       models |-> <<"gemini-2.5-flash">>],
      [tasks |-> <<Task1>>, strategies |-> <<"zero_shot", "zero_shot">>,
       models |-> <<"gemini-2.5-flash", "gemini-pro">>],
      [tasks |-> <<Task1, Task2>>, strategies |-> <<"zero_shot">>,
       models |-> <<"gemini-pro", "gemini-pro">>],
      [tasks |-> <<Task1, Task2>>, strategies |-> <<"zero_shot", "few_shot">>,
       models |-> <<"gemini-2.5-flash">>] }

InitDirs ==
    /\ max_retries = OrderRetries
    /\ \E c \in DirConfigs :
         /\ tasks = c.tasks
         /\ strategies = c.strategies
         /\ models = c.models
         /\ code_file = [f \in GeneratedCodeFiles(c) |-> None]
    /\ ti = 1 /\ si = 1 /\ mi = 1
    /\ pc = "call"
    /\ attempt = 0
    /\ all_attempts = <<>>
    /\ gen = <<>>
    /\ verdict = <<FALSE, None>>
    /\ ret = NoCall
    /\ results = <<>>
    /\ saved = 0
    /\ reported = 0
    /\ llm_calls = 0
    /\ compile_calls = 0
    /\ attempt_log = <<>>
    /\ evaluated = <<>>
    /\ call_log = <<>>
    /\ cc_in = NoCall
    /\ cc_ret = NoCall
    /\ main_file = None
    /\ response = <<>>
    /\ extracted = None
    /\ cleaned = <<>>
    /\ prompt_log = <<>>
    /\ dataset = [tasks |-> tasks, metadata |-> [total_tasks |-> Len(tasks)]]
    /\ task_filter = None
    /\ results_summary = <<>>
    /\ batch_ret = NoCall
    /\ add_log = <<>>

SpecDirs == InitDirs /\ [][NextOrder]_vars

\* the compile_code calls of the run so far
CompileCalls == SelectSeq(call_log, LAMBDA c : c.call = "compile_code")

\* C22: no two compile_code calls of a run receive the same scratch
\* directory, whatever the task ids, the strategy names and the model names.
C22_ScratchDirNeverReused ==
    \A i, j \in 1..Len(CompileCalls) :
        i # j => CompileCalls[i].work_dir # CompileCalls[j].work_dir

----------------------------------------------------------------------------
(* extract_code_from_response on untagged blocks: one call on a response   *)
(* made of opening and closing fences, a keyword, filler and line breaks.  *)

\* a response is a concatenation of at most MaxFenced chunks
MaxFenced == 6

FencedChunks ==
    { GenericOpen, FenceClose \o <<"\n">>, Fence, KwFun, <<"x">>, <<"\n">> }

FencedResponses ==
    { Concat(cs) : cs \in UNION { [1..n -> FencedChunks] : n \in 0..MaxFenced } }

\* one call extract_code_from_response(r)
ExtractFenced ==
    /\ extracted = None
    /\ \E r \in FencedResponses :
         /\ response' = r
         /\ extracted' = Some(extract_code_from_response(r))
    /\ UNCHANGED <<evalVars, compileVars, repairVars, promptVars>>
    /\ UNCHANGED toolVars

SpecFenced == InitExtract /\ [][ExtractFenced]_vars

\* an untagged fenced block, read line by line: it opens with a line ```,
\* closes with the next line ```, and its content is the lines in between.
\* UntaggedLineBlocks gives the contents of the blocks of lines, in order.
RECURSIVE UntaggedLineBlocks(_, _, _)
UntaggedLineBlocks(lines, open, content) ==
    IF lines = <<>> THEN <<>>
    ELSE IF ~open
    THEN UntaggedLineBlocks(Tail(lines), Head(lines) = Fence, <<>>)
    ELSE IF Head(lines) = Fence
    THEN <<JoinLines(content)>> \o UntaggedLineBlocks(Tail(lines), FALSE, <<>>)
    ELSE UntaggedLineBlocks(Tail(lines), TRUE, Append(content, Head(lines)))

UntaggedBlocks(r) == UntaggedLineBlocks(SplitLines(r), FALSE, <<>>)

\* the blocks that hold one of actor, class, primitive, fun, be
WithKeyword(blocks) ==
    SelectSeq(blocks, LAMBDA b : \E kw \in C11_Keywords : Occurs(kw, b))

\* C23: for a response with no block tagged pony and one or more untagged
\* blocks, the result is the trimmed content of the last untagged block that
\* holds one of actor, class, primitive, fun, be, and the trimmed content of
\* the last untagged block when no block holds one.
C23_LastUntaggedBlockWithKeyword ==
    ( /\ extracted # None
      /\ TaggedBlocks(response) = <<>>
      /\ UntaggedBlocks(response) # <<>> ) =>
        LET blocks == UntaggedBlocks(response)
            chosen == IF WithKeyword(blocks) # <<>> THEN WithKeyword(blocks)
                                                   ELSE blocks
        IN  extracted[2] = Strip(chosen[Len(chosen)])

----------------------------------------------------------------------------
(* compile_code: where the text of the source ends up in main.pony.        *)

\* the text of s before its first "actor Main", trimmed
BeforeEntryPoint(s) ==
    LET decl == <<"a", "c", "t", "o", "r", " ", "M", "a", "i", "n">>
        first == CHOOSE i \in 1..Len(s) :
                    /\ OccursAt(decl, s, i)
                    /\ \A j \in 1..(i - 1) : ~OccursAt(decl, s, j)
    IN  Strip(SubSeq(s, 1, first - 1))

\* the source holds "actor Main" and the text before it starts with "fun "
FunctionBeforeEntryPoint ==
    /\ main_file # None
    /\ Occurs(<<"a", "c", "t", "o", "r", " ", "M", "a", "i", "n">>, cc_in.code)
    /\ Len(BeforeEntryPoint(cc_in.code)) >= 4
    /\ SubSeq(BeforeEntryPoint(cc_in.code), 1, 4) = <<"f", "u", "n", " ">>

\* C24: when the source holds "actor Main" and the text before it starts
\* with "fun ", the text written starts with "actor Main", and the lines of
\* the function, each behind two blanks, follow the first line that holds
\* new create(env: Env) =>.
C24_FunctionSplicedAfterConstructor ==
    FunctionBeforeEntryPoint =>
        LET func_lines == SplitLines(BeforeEntryPoint(cc_in.code))
            lines == SplitLines(main_file[2])
            constructor ==
                <<"n", "e", "w", " ", "c", "r", "e", "a", "t", "e", "(",
                  "e", "n", "v", ":", " ", "E", "n", "v", ")", " ", "=", ">">>
        IN  /\ BeforeEntryPoint(main_file[2]) = <<>>
            /\ \E n \in 1..Len(lines) :
                  /\ Occurs(constructor, lines[n])
                  /\ \A k \in 1..(n - 1) : ~Occurs(constructor, lines[k])
                  /\ n + Len(func_lines) <= Len(lines)
                  /\ \A i \in 1..Len(func_lines) :
                        lines[n + i] = <<" ", " ">> \o func_lines[i]

\* the lines of text that are not blank, trimmed
NonBlankLines(text) ==
    LET lines == SplitLines(text)
    IN  { Strip(lines[n]) : n \in { k \in 1..Len(lines) : Strip(lines[k]) # <<>> } }

\* the first "actor Main" of s, if any, stands at the start of a line
EntryPointStartsLine(s) ==
    LET decl == <<"a", "c", "t", "o", "r", " ", "M", "a", "i", "n">>
    IN  \A i \in 1..Len(s) :
            ( /\ OccursAt(decl, s, i)
              /\ \A j \in 1..(i - 1) : ~OccursAt(decl, s, j) ) =>
                (i = 1 \/ s[i - 1] = "\n")

\* C27: the text written to main.pony loses no text of the source: every
\* line of the source that is not blank is found, trimmed, in a line of the
\* text written.  (Stated for the sources whose first "actor Main" starts a
\* line, so that no line is cut in two.)
C27_NoLineLost ==
    (main_file # None /\ EntryPointStartsLine(cc_in.code)) =>
        \A line \in NonBlankLines(cc_in.code) :
            \E kept \in NonBlankLines(main_file[2]) : Occurs(line, kept)

----------------------------------------------------------------------------
(* evaluate_task: the outcome returned.                                    *)

\* C25: when evaluate_task has returned, the generated-code file of the
\* triple holds the generated_code of the outcome returned, whichever
\* attempt the outcome comes from.
C25_FileHoldsReturnedCode ==
    (pc = "collect" /\ ret.kind = "returned") =>
        code_file[CodeFile] = Some(ret.value.generated_code)

\* C26: in every outcome returned, total_attempts is the outcome's own
\* attempt_number, and compilation_success is true exactly when the return
\* came from inside the loop (Succeeded: the loop variable is still below
\* max_retries) and false exactly when the loop ran out (Exhausted).
C26_TotalAttemptsAndSuccess ==
    ret.kind = "returned" =>
        /\ ret.value.total_attempts = ret.value.attempt_number
        /\ ret.value.compilation_success <=> (attempt < max_retries)
        /\ ~ret.value.compilation_success <=> (attempt = max_retries)

\* the first triple succeeded at attempt 2 of 3, the second one ran out of
\* attempts
C26_Witness ==
    /\ max_retries = 3
    /\ Len(results) = 1
    /\ results[1].compilation_success
    /\ results[1].attempt_number = 2
    /\ results[1].total_attempts = 2
    /\ ret.kind = "returned"
    /\ ~ret.value.compilation_success
    /\ ret.value.total_attempts = 3
    /\ attempt = max_retries

----------------------------------------------------------------------------
(* run_evaluation from its first line: the dataset is loaded and filtered  *)
(* before the loops start.                                                  *)

\* task_filter: None, or a list of ids (the empty list included); actor_099
\* is the id of no task
TaskFilters ==
    {None} \cup { Some(ids) : ids \in { <<>>, <<"basic_001">>, <<"ref_001">>,
                                          <<"actor_099">>,
                                          <<"ref_001", "actor_099">>,
                                          <<"basic_001", "ref_001">> } }

\* Python: the elements of a list
Elements(list) == { list[i] : i \in 1..Len(list) }

\* lines 376-377: if task_filter: tasks = [t for t in tasks if t['id'] in
\* task_filter].  None and the empty list are both false in Python.
FilteredTasks(all_tasks, filter) ==
    IF filter # None /\ filter[2] # <<>>
    THEN SelectSeq(all_tasks, LAMBDA t : t.id \in Elements(filter[2]))
    ELSE all_tasks

\* lines 373-390: load the dataset, apply the filter, enter the loops (or
\* go past them when there is nothing to loop over)
LoadTasks ==
    /\ pc = "load"
    /\ tasks' = FilteredTasks(dataset.tasks, task_filter)
    /\ pc' = IF tasks' # <<>> /\ strategies # <<>> /\ models # <<>>
             THEN "call" ELSE "save"
    /\ UNCHANGED <<max_retries, strategies, models, ti, si, mi, attempt,
                   all_attempts, gen, verdict, ret, results, code_file, saved,
                   reported, llm_calls, compile_calls, attempt_log, evaluated,
                   call_log>>
    /\ UNCHANGED <<compileVars, pureVars, toolVars>>

\* the dataset file of the runs with a filter
TwoTasks == [tasks |-> <<Task1, Task2>>, metadata |-> [total_tasks |-> 2]]

\* the state after Evaluator.__init__ and before run_evaluation(filter), with
\* the dataset file holding ds
BeforeRun(retries, ds, filter) ==
    /\ max_retries = retries
    /\ dataset = ds
    /\ task_filter = filter
    /\ tasks = <<>>
    /\ strategies = <<"zero_shot">>
    /\ models = <<"gemini-2.5-flash">>
    /\ code_file = [f \in GeneratedCodeFiles([tasks |-> ds.tasks,
                                               strategies |-> <<"zero_shot">>,
                                               models |-> <<"gemini-2.5-flash">>])
                       |-> None]
    /\ ti = 1 /\ si = 1 /\ mi = 1
    /\ pc = "load"
    /\ attempt = 0
    /\ all_attempts = <<>>
    /\ gen = <<>>
    /\ verdict = <<FALSE, None>>
    /\ ret = NoCall
    /\ results = <<>>
    /\ saved = 0
    /\ reported = 0
    /\ llm_calls = 0
    /\ compile_calls = 0
    /\ attempt_log = <<>>
    /\ evaluated = <<>>
    /\ call_log = <<>>
    /\ cc_in = NoCall
    /\ cc_ret = NoCall
    /\ main_file = None
    /\ response = <<>>
    /\ extracted = None
    /\ cleaned = <<>>
    /\ prompt_log = <<>>
    /\ results_summary = <<>>
    /\ batch_ret = NoCall
    /\ add_log = <<>>

InitFilter == \E filter \in TaskFilters : BeforeRun(OrderRetries, TwoTasks, filter)

SpecFilter == InitFilter /\ [][LoadTasks \/ Next]_vars

\* the ids of the tasks evaluate_task was called for
EvaluatedIds == { tasks[evaluated[i].triple[1]].id : i \in 1..Len(evaluated) }

\* C29: run_evaluation with a filter evaluates the tasks of the dataset
\* whose id is in the filter and no others: none for an empty filter, and
\* all of them only for the filter None.
C29_FilterSelectsTasks ==
    pc = "done" =>
        LET ids == { dataset.tasks[i].id : i \in 1..Len(dataset.tasks) }
        IN  EvaluatedIds =
                IF task_filter = None THEN ids
                ELSE { id \in ids : \E k \in 1..Len(task_filter[2]) :
                                        task_filter[2][k] = id }

----------------------------------------------------------------------------
(* BatchRunner.run_configuration (evaluation/batch_runner.py): an Evaluator *)
(* with the default max_retries, its run_evaluation, then the summary.     *)

\* evaluator.py line 263: max_retries: int = 5
DefaultMaxRetries == 5

\* the filters of the configurations run: every task, one task, no task
BatchFilters == { None, Some(<<"basic_001">>), Some(<<"actor_099">>) }

\* batch_runner.py lines 39-47: the Evaluator is built, run_evaluation starts
InitBatch == \E filter \in BatchFilters : BeforeRun(DefaultMaxRetries, TwoTasks, filter)

\* batch_runner.py line 52: sum(1 for r in evaluator.results if
\* r.compilation_success).  The results are the dicts evaluate_task
\* returns, and a dict has no attribute compilation_success: the first
\* result raises AttributeError.
Successful(rs) ==
    IF rs = <<>> THEN Returned(0) ELSE Raised("AttributeError")

\* batch_runner.py lines 54-63, without the times and the paths.
\* success_rate is the fraction successful / total, kept as the pair of
\* its terms, and 0 when total is 0.
Summary(total, successful) ==
    [ strategies |-> strategies,
      models |-> models,
      total_evaluations |-> total,
      successful |-> successful,
      success_rate |-> IF total > 0 THEN <<successful, total>> ELSE 0 ]

\* batch_runner.py lines 50-65: after run_evaluation, collect the summary
RunConfiguration ==
    /\ pc = "done"
    /\ batch_ret = NoCall
    /\ LET total == Len(results)
           successful == Successful(results)
       IN  IF successful.kind = "raised"
           THEN /\ batch_ret' = successful
                /\ UNCHANGED results_summary
           ELSE /\ results_summary' =
                      Append(results_summary, Summary(total, successful.value))
                /\ batch_ret' = Returned(None)
    /\ UNCHANGED <<dataset, task_filter, add_log>>
    /\ UNCHANGED <<evalVars, compileVars, pureVars>>

NextBatch ==
    \/ LoadTasks
    \/ NextOrder
    \/ RunConfiguration

SpecBatch == InitBatch /\ [][NextBatch]_vars

\* C28: run_configuration ends without an exception, whatever the results
\* of the evaluator, and appends one summary: total_evaluations is the
\* number of results, successful the number of those that compiled, and
\* success_rate successful / total_evaluations, 0 without results.
C28_SummaryAppended ==
    /\ batch_ret.kind # "raised"
    /\ batch_ret.kind = "returned" =>
          /\ Len(results_summary) = 1
          /\ results_summary[1].total_evaluations = Len(results)
          /\ results_summary[1].successful =
                Cardinality({ i \in 1..Len(results) : results[i].compilation_success })
          /\ results_summary[1].success_rate =
                IF results = <<>> THEN 0
                ELSE <<results_summary[1].successful, Len(results)>>

----------------------------------------------------------------------------
(* add_task_to_dataset (add_task.py): calls on a dataset file, each with a *)
(* task and the line typed at the overwrite prompt.                        *)

\* the number of add_task_to_dataset calls in a row
MaxAdds == 3

\* a task of the dataset file: its id and what it holds
DatasetTask(id, title) == [id |-> id, title |-> title]

NewTasks ==
    { DatasetTask(id, title) : id \in {"basic_001", "basic_002"},
                               title \in {"old", "new"} }

\* the lines typed at the prompt "Overwrite existing task? (y/n) [n]"
TypedLines == { <<>>, <<"y">>, <<"Y", " ">>, <<"n">> }

\* dataset files with unique ids and a total_tasks that fits
AddDatasets ==
    { [tasks |-> ts, metadata |-> [total_tasks |-> Len(ts)]] :
        ts \in { <<>>,
                 <<DatasetTask("basic_001", "old")>>,
                 <<DatasetTask("basic_001", "old"), DatasetTask("basic_002", "old")>> } }

\* lines 11-16: get_input(prompt, default) for the typed line
get_input(line, default) ==
    IF default # <<>>
    THEN IF Strip(line) # <<>> THEN Strip(line) ELSE default
    ELSE Strip(line)

\* mutant of add_task_to_dataset: the old task is not removed before the new
\* one is appended
add_task_to_dataset_KeepsOld(task, ds, line) ==
    LET existing_ids == { ds.tasks[i].id : i \in 1..Len(ds.tasks) }
        overwrite == get_input(line, <<"n">>)
    IN  IF task.id \in existing_ids /\ Lower(overwrite) # <<"y">>
        THEN [ret |-> FALSE, dataset |-> ds]
        ELSE LET added == Append(ds.tasks, task)
             IN  [ret |-> TRUE,
                  dataset |-> [tasks |-> added,
                               metadata |-> [total_tasks |-> Len(added)]]]

\* lines 116-145: what the call returns and what the dataset file holds
\* after it
add_task_to_dataset(task, ds, line) ==
    LET existing_ids == { ds.tasks[i].id : i \in 1..Len(ds.tasks) }
        overwrite == get_input(line, <<"n">>)
    IN  IF task.id \in existing_ids /\ Lower(overwrite) # <<"y">>
        THEN [ret |-> FALSE, dataset |-> ds]
        ELSE LET kept == IF task.id \in existing_ids
                         THEN SelectSeq(ds.tasks, LAMBDA t : t.id # task.id)
                         ELSE ds.tasks
                 added == Append(kept, task)
             IN  [ret |-> TRUE,
                  dataset |-> [tasks |-> added,
                               metadata |-> [total_tasks |-> Len(added)]]]

\* one call add_task_to_dataset(task, dataset_path)
AddTask ==
    /\ Len(add_log) < MaxAdds
    /\ \E task \in NewTasks, line \in TypedLines :
         LET r == add_task_to_dataset(task, dataset, line)
         IN  /\ dataset' = r.dataset
             /\ add_log' = Append(add_log, [task |-> task, typed |-> line,
                                            before |-> dataset,
                                            after |-> r.dataset,
                                            ret |-> r.ret])
    /\ UNCHANGED <<task_filter, results_summary, batch_ret>>
    /\ UNCHANGED <<evalVars, compileVars, pureVars>>

InitAdd == \E ds \in AddDatasets : BeforeRun(0, ds, None)

SpecAdd == InitAdd /\ [][AddTask]_vars

\* the ids of the tasks of a dataset file
Ids(ds) == { ds.tasks[i].id : i \in 1..Len(ds.tasks) }

\* the typed line is an acceptance: y or Y between blanks
Accepted(line) == Strip(line) \in { <<"y">>, <<"Y">> }

====
